---- MODULE Spec2Model ----
(***************************************************************************)
(* Scroll-driven frame playback engine (src/unnamed/part_001, the most     *)
(* complete of the three engine variants): frame store, progressive        *)
(* loader, scroll-to-frame mapper, delta-time smoothing, double-buffered   *)
(* compositor and the single requestAnimationFrame loop.                   *)
(*                                                                         *)
(* Numbers.  JavaScript numbers are doubles; here every fractional         *)
(* quantity is a fixed-point integer in units of 1/Scale (smoothScrollY,   *)
(* the two progress fields, currentFrame), the nearest one to the double,  *)
(* and Math.pow results are tabulated to twelve decimals.  Timestamps and  *)
(* dt are integer milliseconds.  Values stay below 10000 (pixels, frames), *)
(* and products are taken digit by digit, which keeps every intermediate   *)
(* result within 32 bits.                                                  *)
(* Images are identified by the number in their URL (frameUrl); NoImage   *)
(* is null, and the content of a surface nothing has been drawn on.       *)
(***************************************************************************)
EXTENDS Integers, Sequences, FiniteSets, TLC

(* ---------------- program constants (CONFIG, part_001:11-22) ----------- *)
FRAME_COUNT == 150
PRELOAD_RADIUS == 12
BATCH_LOAD == 3
MIN_FRAMES_TO_START == 25
TARGET_FPS == 60
\* LERP_FACTOR 0.08 and CANVAS_LERP 0.14, in thousandths
LERP_FACTOR == 80
CANVAS_LERP == 140
\* const keyCount = 20 of preloadFrames
KEY_COUNT == 20

(* ---------------- fixed-point units ------------------------------------ *)
Scale == 100000
PowScale == 100000000

(* ---------------- bounds of the model ---------------------------------- *)
\* the scaled-down configuration the state machine is explored with
SmallFrames == 3
SmallRadius == 1
SmallBatch == 1
SmallKeyCount == 2
SmallMinFrames == 2
\* animation timestamps are bounded by MaxTime (ms)
MaxTime == 600
\* the loader interval runs by the clock: time passes up to MaxLoaderTime ms
\* in the page of three frames, and up to MaxLoaderTimeLong ms in the loader
\* of five
MaxLoaderTime == 80
MaxLoaderTimeLong == 240

RealConfig == [FRAME_COUNT |-> FRAME_COUNT, PRELOAD_RADIUS |-> PRELOAD_RADIUS,
               BATCH_LOAD |-> BATCH_LOAD, MIN_FRAMES_TO_START |-> MIN_FRAMES_TO_START,
               keyCount |-> KEY_COUNT]
SmallConfig == [FRAME_COUNT |-> SmallFrames, PRELOAD_RADIUS |-> SmallRadius,
                BATCH_LOAD |-> SmallBatch, MIN_FRAMES_TO_START |-> SmallMinFrames,
                keyCount |-> SmallKeyCount]

(* ---------------- environment inputs ----------------------------------- *)
\* window.innerWidth/innerHeight/devicePixelRatio and
\* document.documentElement.scrollHeight, as one layout of the page
Layouts == { [innerWidth |-> 4, innerHeight |-> 3, devicePixelRatio |-> 1, scrollHeight |-> 5],
             [innerWidth |-> 3, innerHeight |-> 3, devicePixelRatio |-> 3, scrollHeight |-> 5] }
InitialLayout == [innerWidth |-> 4, innerHeight |-> 3, devicePixelRatio |-> 1, scrollHeight |-> 5]
\* window.scrollY values delivered by scroll events (overscroll included)
ScrollYs == {-1, 0, 2}
\* the inputs of the mapper specification: extents 1000, 298 and 0
MapperLayouts ==
    { [innerWidth |-> 1280, innerHeight |-> 800, devicePixelRatio |-> 1, scrollHeight |-> 1800],
      [innerWidth |-> 1024, innerHeight |-> 702, devicePixelRatio |-> 2, scrollHeight |-> 1000],
      [innerWidth |-> 800, innerHeight |-> 600, devicePixelRatio |-> 3, scrollHeight |-> 600] }
MapperInitialLayout ==
    [innerWidth |-> 1280, innerHeight |-> 800, devicePixelRatio |-> 1, scrollHeight |-> 1800]
MapperScrollYs ==
    {-10, -1, 0, 1, 3, 4, 15, 97, 149, 150, 298, 300, 499, 500, 501, 750, 999, 1000, 1001, 1200}
\* timestamp increments between two animation ticks (ms)
Deltas == {200}
\* the same where scroll events are counted between the ticks: a tick within
\* the 100 ms cap of dt or past it
CoalesceDeltas == {90, 250}
\* the page elements init() looks up
AllElements == {"layer1", "layer2", "canvas", "heroContent", "nav", "smoothContent", "preloader"}
\* DOM.smoothContent.offsetHeight: the content is what makes the page scroll
ContentOffsetHeight(l) == l.scrollHeight

VARIABLES
    CONFIG,                 \* the CONFIG object (constant after construction)
    DOM,                    \* the page elements that exist
    started,                \* init() has run
    initThrew,              \* init() ended in an exception
    \* window / document
    scrollY, layout, bodyHeight, navScrolled, heroFaded, styleTransform,
    \* state object
    targetScrollY, smoothScrollY, targetScrollProgress, smoothScrollProgress,
    currentFrame, displayedFrame, targetFrame, lastTime, contentHeight,
    \* canvas
    canvas, offscreen, canvasW, canvasH, dpr,
    \* frame storage
    frames, frameStatus, anyFrameReady, framesLoadedCount,
    inflight,               \* Image objects whose onload/onerror is still to fire, per index
    preloaderHidden,
    \* timers and callbacks
    preloadTimer, resizeTimer,
    rafPending,             \* animate callbacks requestAnimationFrame has queued
    now,                    \* the browser's clock (ms)
    resizePending,          \* the times at which pending onResize timeouts are due
    preloadDue,             \* the time at which the loader interval fires next
    \* history: the compositor calls the last handler made, in order
    calls,
    \* one pure function applied to one input, outside the page (lerp in
    \* SpecLerp, the cover-fit in SpecFit)
    probe,
    \* service worker (sw.js)
    swInstalled,            \* the install event has pre-cached the static assets
    cacheStorage,           \* caches: per cache name and URL the stored response
    swTasks                 \* the fetch handlers in progress, per slot

envVars == <<scrollY, layout, bodyHeight, navScrolled, heroFaded, styleTransform>>
stateVars == <<targetScrollY, smoothScrollY, targetScrollProgress, smoothScrollProgress,
               currentFrame, displayedFrame, targetFrame, lastTime, contentHeight>>
canvasVars == <<canvas, offscreen, canvasW, canvasH, dpr>>
storeVars == <<frames, frameStatus, anyFrameReady, framesLoadedCount, inflight, preloaderHidden>>
timerVars == <<preloadTimer, resizeTimer, rafPending>>
swVars == <<swInstalled, cacheStorage, swTasks>>
clockVars == <<now, resizePending, preloadDue>>
vars == <<CONFIG, DOM, started, initThrew, envVars, stateVars, canvasVars, storeVars,
          timerVars, calls, probe, swVars, clockVars>>
\* everything but the service worker and the clock
pageVarsNoClock == <<CONFIG, DOM, started, initThrew, envVars, stateVars, canvasVars,
                     storeVars, timerVars, calls, probe>>

(* ---------------- arithmetic helpers ----------------------------------- *)
Min(a, b) == IF a <= b THEN a ELSE b
Max(a, b) == IF a >= b THEN a ELSE b
Abs(a) == IF a < 0 THEN -a ELSE a

\* Math.round of the rational num/den (den > 0): nearest integer, halves up
RoundDiv(num, den) == (2 * num + den) \div (2 * den)

\* Math.round of a fixed-point value
Round(v) == RoundDiv(v, Scale)

\* Math.pow(1 - 0.08, dt * 60) and Math.pow(1 - 0.14, dt * 60) for dt = 0.001,
\* 0.002, ..., 0.2 (entry i is dt = i ms), the double to twelve decimals:
\* <<hi, lo>> stands for hi / PowScale + lo / (PowScale * Limb)
Limb == 10000
MathPowLerp == <<
    <<99500959, 7107>>, <<99004409, 8335>>, <<98510337, 9403>>, <<98018731, 6648>>,
    <<97529578, 7028>>, <<97042866, 8111>>, <<96558583, 8078>>, <<96076717, 5718>>,
    <<95597256, 425>>, <<95120187, 2194>>, <<94645499, 1619>>, <<94173179, 9891>>,
    <<93703217, 8792>>, <<93235601, 696>>, <<92770317, 8563>>, <<92307356, 5937>>,
    <<91846705, 6943>>, <<91388353, 6285>>, <<90932288, 9242>>, <<90478500, 1665>>,
    <<90026975, 9975>>, <<89577705, 1160>>, <<89130676, 2773>>, <<88685878, 2925>>,
    <<88243300, 290>>, <<87802930, 4092>>, <<87364758, 4113>>, <<86928773, 682>>,
    <<86494963, 4676>>, <<86063318, 7517>>, <<85633828, 1168>>, <<85206480, 8132>>,
    <<84781266, 1449>>, <<84358173, 4690>>, <<83937192, 1961>>, <<83518311, 7893>>,
    <<83101521, 7646>>, <<82686811, 6899>>, <<82274171, 1857>>, <<81863589, 9238>>,
    <<81455057, 6278>>, <<81048564, 726>>, <<80644099, 839>>, <<80241652, 5386>>,
    <<79841214, 3636>>, <<79442774, 5365>>, <<79046323, 846>>, <<78651850, 852>>,
    <<78259345, 6650>>, <<77868800, 0>>, <<77480203, 3152>>, <<77093545, 8844>>,
    <<76708818, 300>>, <<76326010, 1226>>, <<75945112, 5809>>, <<75566115, 8714>>,
    <<75189010, 5081>>, <<74813787, 526>>, <<74440436, 1132>>, <<74068948, 3455>>,
    <<73699314, 4514>>, <<73331525, 1793>>, <<72965571, 3239>>, <<72601443, 7257>>,
    <<72239133, 2709>>, <<71878630, 8913>>, <<71519927, 5637>>, <<71163014, 3103>>,
    <<70807882, 1978>>, <<70454522, 3376>>, <<70102925, 8855>>, <<69753084, 414>>,
    <<69404988, 490>>, <<69058629, 1959>>, <<68713998, 8129>>, <<68371088, 2745>>,
    <<68029888, 9978>>, <<67690392, 4429>>, <<67352590, 1126>>, <<67016473, 5521>>,
    <<66682034, 3486>>, <<66349264, 1315>>, <<66018154, 5718>>, <<65688697, 3822>>,
    <<65360884, 3168>>, <<65034707, 1706>>, <<64710157, 7798>>, <<64387228, 212>>,
    <<64065909, 8122>>, <<63746195, 1106>>, <<63428075, 9141>>, <<63111544, 2605>>,
    <<62796592, 2275>>, <<62483211, 9320>>, <<62171395, 5304>>, <<61861135, 2183>>,
    <<61552423, 2301>>, <<61245251, 8392>>, <<60939613, 3572>>, <<60635500, 1344>>,
    <<60332904, 5591>>, <<60031819, 577>>, <<59732236, 942>>, <<59434148, 1704>>,
    <<59137547, 8254>>, <<58842427, 6356>>, <<58548780, 2145>>, <<58256598, 2124>>,
    <<57965874, 3161>>, <<57676601, 2492>>, <<57388771, 7715>>, <<57102378, 6788>>,
    <<56817414, 8031>>, <<56533873, 119>>, <<56251746, 2085>>, <<55971027, 3314>>,
    <<55691709, 3547>>, <<55413785, 2873>>, <<55137248, 1728>>, <<54862091, 901>>,
    <<54588307, 1520>>, <<54315889, 5060>>, <<54044831, 3339>>, <<53775125, 8513>>,
    <<53506766, 3077>>, <<53239745, 9863>>, <<52974058, 2039>>, <<52709696, 3106>>,
    <<52446653, 6896>>, <<52184923, 7573>>, <<51924499, 9628>>, <<51665375, 7880>>,
    <<51407544, 7472>>, <<51151000, 3872>>, <<50895736, 2869>>, <<50641746, 573>>,
    <<50389023, 3412>>, <<50137561, 8134>>, <<49887355, 1799>>, <<49638397, 1783>>,
    <<49390681, 5774>>, <<49144202, 1771>>, <<48898952, 8084>>, <<48654927, 3329>>,
    <<48412119, 6428>>, <<48170523, 6608>>, <<47930133, 3402>>, <<47690942, 6641>>,
    <<47452945, 6459>>, <<47216136, 3287>>, <<46980508, 7853>>, <<46746057, 1184>>,
    <<46512775, 4597>>, <<46280657, 9705>>, <<46049698, 8411>>, <<45819892, 2907>>,
    <<45591232, 5677>>, <<45363713, 9488>>, <<45137330, 7395>>, <<44912077, 2736>>,
    <<44687947, 9132>>, <<44464937, 487>>, <<44243039, 982>>, <<44022248, 5079>>,
    <<43802559, 7516>>, <<43583967, 3307>>, <<43366465, 7740>>, <<43150049, 6378>>,
    <<42934713, 5052>>, <<42720451, 9867>>, <<42507259, 7196>>, <<42295131, 3677>>,
    <<42084061, 6217>>, <<41874045, 1989>>, <<41665076, 8426>>, <<41457151, 3226>>,
    <<41250263, 4347>>, <<41044408, 7>>, <<40839579, 8683>>, <<40635773, 9107>>,
    <<40432985, 271>>, <<40231208, 1416>>, <<40030438, 2041>>, <<39830670, 1895>>,
    <<39631899, 978>>, <<39434119, 9538>>, <<39237327, 8075>>, <<39041517, 7333>>,
    <<38846684, 8303>>, <<38652824, 2219>>, <<38459931, 561>>, <<38268000, 5049>>,
    <<38077027, 7645>>, <<37887008, 550>>, <<37697936, 6204>>, <<37509808, 7284>>,
    <<37322619, 6704>>, <<37136364, 7612>>, <<36951039, 3391>>, <<36766638, 7655>> >>

MathPowCanvas == <<
    <<99099144, 8964>>, <<98206405, 1919>>, <<97321707, 7786>>, <<96444980, 2071>>,
    <<95576150, 6807>>, <<94715148, 495>>, <<93861901, 8043>>, <<93016342, 715>>,
    <<92178399, 6068>>, <<91348005, 7895>>, <<90525092, 6172>>, <<89709592, 7003>>,
    <<88901439, 2560>>, <<88100566, 1032>>, <<87306907, 6572>>, <<86520398, 9237>>,
    <<85740975, 4943>>, <<84968573, 5407>>, <<84203129, 8094>>, <<83444581, 6171>>,
    <<82692866, 8449>>, <<81947923, 9336>>, <<81209691, 8785>>, <<80478110, 2245>>,
    <<79753119, 613>>, <<79034659, 179>>, <<78322671, 2585>>, <<77617097, 4771>>,
    <<76917879, 8932>>, <<76224961, 2466>>, <<75538284, 7929>>, <<74857794, 2992>>,
    <<74183434, 388>>, <<73515148, 7872>>, <<72852883, 8174>>, <<72196584, 8953>>,
    <<71546198, 2756>>, <<70901670, 6970>>, <<70262949, 3780>>, <<69629982, 125>>,
    <<69002716, 7659>>, <<68381102, 2703>>, <<67765087, 6205>>, <<67154622, 3702>>,
    <<66549656, 5273>>, <<65950140, 5500>>, <<65356025, 3430>>, <<64767262, 2531>>,
    <<64183803, 656>>, <<63605600, 0>>, <<63032605, 7062>>, <<62464773, 2607>>,
    <<61902056, 1628>>, <<61344408, 3306>>, <<60791784, 974>>, <<60244138, 2077>>,
    <<59701425, 8141>>, <<59163602, 4727>>, <<58630624, 1403>>, <<58102447, 1704>>,
    <<57579028, 3097>>, <<57060324, 6946>>, <<56546293, 8474>>, <<56036893, 6734>>,
    <<55532082, 4568>>, <<55031818, 8578>>, <<54536061, 9090>>, <<54044771, 120>>,
    <<53557905, 9341>>, <<53075426, 8050>>, <<52597294, 1139>>, <<52123468, 7055>>,
    <<51653911, 7775>>, <<51188584, 8770>>, <<50727449, 8976>>, <<50270469, 763>>,
    <<49817604, 9900>>, <<49368820, 5529>>, <<48924079, 134>>, <<48483343, 9507>>,
    <<48046579, 2723>>, <<47613749, 2108>>, <<47184818, 3210>>, <<46759751, 4770>>,
    <<46338513, 8693>>, <<45921071, 22>>, <<45507388, 6904>>, <<45097433, 569>>,
    <<44691170, 5296>>, <<44288567, 8390>>, <<43889592, 153>>, <<43494210, 3856>>,
    <<43102390, 5716>>, <<42714100, 4863>>, <<42329308, 3321>>, <<41947982, 5977>>,
    <<41570092, 555>>, <<41195605, 7597>>, <<40824493, 427>>, <<40456723, 5136>>,
    <<40092267, 551>>, <<39731093, 8211>>, <<39373174, 2347>>, <<39018478, 9851>>,
    <<38666979, 258>>, <<38318645, 5719>>, <<37973450, 976>>, <<37631364, 3343>>,
    <<37292360, 2682>>, <<36956410, 1374>>, <<36623486, 4306>>, <<36293561, 8839>>,
    <<35966609, 4794>>, <<35642602, 4423>>, <<35321514, 2391>>, <<35003318, 5754>>,
    <<34687989, 3936>>, <<34375500, 8708>>, <<34065827, 4168>>, <<33758943, 6719>>,
    <<33454824, 5049>>, <<33153445, 109>>, <<32854780, 5095>>, <<32558806, 5425>>,
    <<32265498, 8721>>, <<31974833, 4788>>, <<31686786, 5595>>, <<31401334, 5256>>,
    <<31118454, 9>>, <<30838121, 8199>>, <<30560315, 256>>, <<30285010, 8680>>,
    <<30012186, 8020>>, <<29741820, 4854>>, <<29473889, 7777>>, <<29208372, 7374>>,
    <<28945247, 6209>>, <<28684492, 8804>>, <<28426087, 1623>>, <<28170009, 3054>>,
    <<27916238, 3389>>, <<27664753, 4810>>, <<27415534, 1374>>, <<27168559, 8989>>,
    <<26923810, 5405>>, <<26681266, 191>>, <<26440906, 4725>>, <<26202712, 2171>>,
    <<25966663, 7468>>, <<25732741, 7312>>, <<25500927, 140>>, <<25271200, 6115>>,
    <<25043543, 7110>>, <<24817937, 6694>>, <<24594364, 113>>, <<24372804, 4279>>,
    <<24153240, 7753>>, <<23935655, 730>>, <<23720029, 5027>>, <<23506346, 4064>>,
    <<23294588, 2851>>, <<23084737, 7976>>, <<22876777, 7590>>, <<22670691, 1390>>,
    <<22466461, 609>>, <<22264070, 7998>>, <<22063503, 7817>>, <<21864743, 5819>>,
    <<21667773, 9234>>, <<21472578, 6762>>, <<21279141, 8553>>, <<21087447, 6199>>,
    <<20897480, 2718>>, <<20709224, 2542>>, <<20522664, 1506>>, <<20337784, 6832>>,
    <<20154570, 7119>>, <<19973007, 2330>>, <<19793079, 3780>>, <<19614772, 4123>>,
    <<19438071, 7339>>, <<19262962, 8727>>, <<19089431, 4885>>, <<18917463, 3707>>,
    <<18747044, 4364>>, <<18578160, 7298>>, <<18410798, 4207>>, <<18244943, 8035>>,
    <<18080583, 2961>>, <<17917703, 4387>>, <<17756290, 8929>>, <<17596332, 4401>>,
    <<17437814, 9813>>, <<17280725, 5351>>, <<17125051, 2371>>, <<16970779, 3391>>,
    <<16817897, 2073>>, <<16666392, 3219>>, <<16516252, 2761>>, <<16367464, 7746>> >>

\* Math.pow(1 - factor, dt * TARGET_FPS) as such a pair, for the two factors
\* of CONFIG (in thousandths) and dt in whole ms up to 0.2 s
PowOneMinus(factor, dt) ==
    IF factor = LERP_FACTOR THEN MathPowLerp[dt] ELSE MathPowCanvas[dt]

\* a * k for a whole a >= 0 and a pair k with 0 <= k <= 1, exact: the whole
\* part q, and whether the fraction is at least one half (up), computed on
\* the digits to the base Limb so that no product leaves 32 bits
MulPow(a, k) ==
    LET a0 == a % Limb
        a1 == (a \div Limb) % Limb
        a2 == a \div (Limb * Limb)
        k0 == k[2]
        k1 == k[1] % Limb
        k2 == k[1] \div Limb
        c0 == a0 * k0
        t1 == a1 * k0 + a0 * k1 + (c0 \div Limb)
        t2 == a2 * k0 + a1 * k1 + a0 * k2 + (t1 \div Limb)
        t3 == a2 * k1 + a1 * k2 + (t2 \div Limb)
        t4 == a2 * k2 + (t3 \div Limb)
    IN  [q |-> t4 * Limb + (t3 % Limb), up |-> 2 * (t2 % Limb) >= Limb]

\* the nearest whole number to a * k
MulPowRound(a, k) == LET m == MulPow(a, k) IN m.q + (IF m.up THEN 1 ELSE 0)

(* ---------------- frame store ------------------------------------------ *)
FrameIdx == 0 .. (CONFIG.FRAME_COUNT - 1)

\* frameUrl(i): the number in the URL of frame i (padStart does not change it)
frameUrl(i) == i + 1

\* null in `frames`; as the image of a surface, nothing drawn
NoImage == -1000

\* the new Image of loadFrame(index), counted with the fetches in flight
NewImage(st, index) == [st.inflight EXCEPT ![index] = @ + 1]

\* frameStatus is a Uint8Array: a read outside 0..FRAME_COUNT-1 gives
\* undefined (and undefined >= 1 is false), a write there is ignored
StatusAt(fs, index) == IF index \in DOMAIN fs THEN fs[index] ELSE 0
StatusPut(fs, index, v) == IF index \in DOMAIN fs THEN [fs EXCEPT ![index] = v] ELSE fs

\* loadFrame without the status check
loadFrame_NoCheck(st, index) ==
    [frameStatus |-> StatusPut(st.frameStatus, index, 1),
     inflight |-> NewImage(st, index)]

\* loadFrame that returns early for Ready frames only
loadFrame_ReadyOnly(st, index) ==
    IF StatusAt(st.frameStatus, index) > 1 THEN st
    ELSE [frameStatus |-> StatusPut(st.frameStatus, index, 1),
          inflight |-> NewImage(st, index)]

\* loadFrame(index) on the pair (frameStatus, inflight): the status check,
\* the status write and the new Image whose callbacks are pending
loadFrame(st, index) ==
    IF StatusAt(st.frameStatus, index) >= 1 THEN st
    ELSE [frameStatus |-> StatusPut(st.frameStatus, index, 1),
          inflight |-> NewImage(st, index)]

\* loadFrame called for each index of a sequence, in order (the singleton set
\* binds the store and the sequence to their values, so that each call is
\* computed once)
RECURSIVE LoadEach(_, _)
LoadEach(st, s) ==
    IF s = <<>> THEN st
    ELSE CHOOSE r \in { LoadEach(loadFrame(v, Head(t)), Tail(t)) : v \in {st}, t \in {s} } : TRUE

\* the keyframe index computed with Math.floor in place of Math.round
KeyFrame_Floor(cfg, i) == (i * (cfg.FRAME_COUNT - 1)) \div (cfg.keyCount - 1)

\* preloadFrames, phase 1: the indices of the evenly spaced keyframes
KeyFrame(cfg, i) == RoundDiv(i * (cfg.FRAME_COUNT - 1), cfg.keyCount - 1)
RECURSIVE KeyFrames(_, _)
KeyFrames(cfg, i) ==
    IF i >= cfg.keyCount THEN <<>> ELSE <<KeyFrame(cfg, i)>> \o KeyFrames(cfg, i + 1)

\* the first loop scanning upward only (no loadFrame(center - d))
RECURSIVE ProximityCalls_UpOnly(_, _, _)
ProximityCalls_UpOnly(cfg, center, d) ==
    IF d > cfg.PRELOAD_RADIUS THEN <<>>
    ELSE (IF center + d < cfg.FRAME_COUNT THEN <<center + d>> ELSE <<>>)
         \o ProximityCalls_UpOnly(cfg, center, d + 1)

\* proximityLoad, first loop: the loadFrame calls for d = from .. PRELOAD_RADIUS
RECURSIVE ProximityCalls(_, _, _)
ProximityCalls(cfg, center, d) ==
    IF d > cfg.PRELOAD_RADIUS THEN <<>>
    ELSE (IF center + d < cfg.FRAME_COUNT THEN <<center + d>> ELSE <<>>)
         \o (IF center - d >= 0 THEN <<center - d>> ELSE <<>>)
         \o ProximityCalls(cfg, center, d + 1)

\* the second loop with the batch test off by one (loaded <= BATCH_LOAD)
RECURSIVE TrickleCalls_OneMore(_, _, _, _)
TrickleCalls_OneMore(cfg, fs, i, loaded) ==
    IF ~(i < cfg.FRAME_COUNT /\ loaded <= cfg.BATCH_LOAD) THEN <<>>
    ELSE IF fs[i] = 0 THEN <<i>> \o TrickleCalls_OneMore(cfg, fs, i + 1, loaded + 1)
         ELSE TrickleCalls_OneMore(cfg, fs, i + 1, loaded)

\* proximityLoad, second loop from index i with `loaded` frames already taken
RECURSIVE TrickleCalls(_, _, _, _)
TrickleCalls(cfg, fs, i, loaded) ==
    IF ~(i < cfg.FRAME_COUNT /\ loaded < cfg.BATCH_LOAD) THEN <<>>
    ELSE IF fs[i] = 0 THEN <<i>> \o TrickleCalls(cfg, fs, i + 1, loaded + 1)
         ELSE TrickleCalls(cfg, fs, i + 1, loaded)

\* the store after one run of proximityLoad's two loops
proximityLoad(cfg, st, center) ==
    CHOOSE r \in { LoadEach(near, TrickleCalls(cfg, near.frameStatus, 0, 0)) :
                     near \in { LoadEach(st, ProximityCalls(cfg, center, 0)) } } : TRUE

(* ---------------- scroll-to-frame mapper ------------------------------- *)
\* max of onScroll
MaxScroll(l) == l.scrollHeight - l.innerHeight

\* state.targetScrollProgress of onScroll, fixed point
MapProgress(y, max) ==
    IF max > 0 THEN (IF y >= max THEN Scale ELSE RoundDiv(y * Scale, max)) ELSE 0

\* e with 2^e <= a / b < 2^(e + 1), for a, b > 0: the binary exponent of the
\* double a / b
RECURSIVE FloorLog2(_, _)
FloorLog2(a, b) ==
    IF a >= 2 * b THEN FloorLog2(a, 2 * b) + 1
    ELSE IF a < b THEN FloorLog2(2 * a, b) - 1
    ELSE 0

RECURSIVE Pow2(_)
Pow2(e) == IF e = 0 THEN 1 ELSE 2 * Pow2(e - 1)

\* 2^e modulo m
RECURSIVE Pow2Mod(_, _)
Pow2Mod(e, m) == IF e = 0 THEN 1 % m ELSE (2 * Pow2Mod(e - 1, m)) % m

\* x > m * 2^d, for any integer d
Exceeds(x, m, d) == IF d >= 0 THEN x > m * Pow2(d) ELSE x * Pow2(-d) > m

\* Math.round(progress * n1) where progress = a / max in doubles and the exact
\* product is the half-integer k + 1/2 (a, max > 0; neg: the offset is -a).
\* The quotient a / max is rounded to 53 bits: r is the remainder that decides
\* the direction.  When the rounded quotient times n1 falls on the far side of
\* k + 1/2 by more than half a unit in the last place, the product is a double
\* next to the half-integer and Math.round gives the other integer.
RoundAtTie(a, max, n1, k, neg) ==
    LET eq == FloorLog2(a, max)
        r == ((a % max) * Pow2Mod(52 - eq, max)) % max
        ek == FloorLog2(2 * k + 1, 2)
    IN  IF ~neg
        THEN IF r # 0 /\ 2 * r < max
                /\ Exceeds(2 * n1 * r, max, (IF k = 0 THEN ek - 1 ELSE ek) - eq)
             THEN k ELSE k + 1
        ELSE IF r # 0 /\ 2 * r > max /\ Exceeds(2 * n1 * (max - r), max, ek - eq)
             THEN -(k + 1) ELSE -k

\* Math.round(progress * n1) for progress = y / max (max > 0): the nearest
\* integer of the exact product, except at an exact half-integer
RoundProduct(y, max, n1) ==
    LET a == Abs(y)
        twice == (2 * a * n1) \div max
    IN  IF (2 * a * n1) % max = 0 /\ twice % 2 = 1
        THEN RoundAtTie(a, max, n1, (twice - 1) \div 2, y < 0)
        ELSE RoundDiv(y * n1, max)

\* the target frame computed with Math.floor in place of Math.round
MapFrame_Floor(y, max, n) ==
    IF max > 0
    THEN (IF y >= max THEN n - 1 ELSE Min((y * (n - 1)) \div max, n - 1))
    ELSE 0

\* state.targetFrame of onScroll: Math.min(Math.round(progress * (N - 1)), N - 1)
MapFrame(y, max, n) ==
    IF max > 0
    THEN (IF y >= max THEN n - 1 ELSE Min(RoundProduct(y, max, n - 1), n - 1))
    ELSE 0

(* ---------------- smoothing -------------------------------------------- *)
\* dt of animate, in ms: Math.min((timestamp - lastTime) / 1000, 0.1) || 0.016
DeltaTime(timestamp, last) ==
    LET d == Min(timestamp - last, 100) IN IF d = 0 THEN 16 ELSE d

\* lerp that never snaps to the target
lerp_NoSnap(current, target, factor, dt) ==
    LET rest == MulPowRound(Abs(target - current), PowOneMinus(factor, dt))
    IN  IF target >= current THEN target - rest ELSE target + rest

\* lerp without delta-time compensation: the plain factor on every call
lerp_NoDt(current, target, factor, dt) ==
    LET left == MulPow(Abs(target - current), <<(1000 - factor) * (PowScale \div 1000), 0>>)
        rest == left.q + (IF left.up THEN 1 ELSE 0)
    IN  IF 2 * left.q < Scale THEN target
        ELSE IF target >= current THEN target - rest ELSE target + rest

\* lerp(current, target, factor, dt) on fixed-point values.  With
\* p = Math.pow(1 - factor, dt * TARGET_FPS), r = current + (target - current)
\* * (1 - p) lies |target - current| * p short of the target: `left` is that
\* distance, exact, the test is |target - r| < 0.5 on it, and r is returned
\* to the nearest unit
lerp(current, target, factor, dt) ==
    LET left == MulPow(Abs(target - current), PowOneMinus(factor, dt))
        rest == left.q + (IF left.up THEN 1 ELSE 0)
    IN  IF 2 * left.q < Scale THEN target
        ELSE IF target >= current THEN target - rest ELSE target + rest

(* ---------------- compositor ------------------------------------------- *)
\* the search with the two tests of each distance swapped (higher index first)
RECURSIVE SearchFrom_HighFirst(_, _, _, _)
SearchFrom_HighFirst(f, n, index, d) ==
    IF d >= n THEN NoImage
    ELSE IF index + d < n /\ f[index + d] # NoImage THEN f[index + d]
    ELSE IF index - d >= 0 /\ f[index - d] # NoImage THEN f[index - d]
    ELSE SearchFrom_HighFirst(f, n, index, d + 1)

\* the search of drawFrameToBuffer for distance d onward: the image drawn,
\* NoImage if none
RECURSIVE SearchFrom(_, _, _, _)
SearchFrom(f, n, index, d) ==
    IF d >= n THEN NoImage
    ELSE IF index - d >= 0 /\ f[index - d] # NoImage THEN f[index - d]
    ELSE IF index + d < n /\ f[index + d] # NoImage THEN f[index + d]
    ELSE SearchFrom(f, n, index, d + 1)

\* the image drawFrameToBuffer(index) picks, NoImage if it returns without
\* drawing (frames[index] of an index never written is undefined)
PickImage(f, n, index) ==
    IF index \in DOMAIN f /\ f[index] # NoImage THEN f[index] ELSE SearchFrom(f, n, index, 1)

\* drawFrameToBuffer(index): the offscreen buffer afterwards
drawFrameToBuffer(off, f, n, index) ==
    IF ~off.exists THEN off
    ELSE LET img == PickImage(f, n, index)
         IN  IF img = NoImage THEN off ELSE [off EXCEPT !.img = img]

\* blitBuffer(): the visible canvas afterwards
blitBuffer(cv, off) ==
    IF ~off.exists THEN cv ELSE [cv EXCEPT !.img = off.img]

\* `let offscreen` before the first resizeCanvas (undefined)
NullSurface == [exists |-> FALSE, width |-> 0, height |-> 0, img |-> NoImage]

\* resizeCanvas(): dpr, physical size and the fresh (blank) surfaces
CappedDpr(l) == Min(IF l.devicePixelRatio = 0 THEN 1 ELSE l.devicePixelRatio, 2)
FreshSurface(l) ==
    [exists |-> TRUE, width |-> l.innerWidth * CappedDpr(l),
     height |-> l.innerHeight * CappedDpr(l), img |-> NoImage]

(* ---------------- service worker (src/sw.js) --------------------------- *)
\* cache names
STATIC_CACHE == "antigravity-static-v1"
FRAME_CACHE == "antigravity-frames-v1"
\* caches.match searches the caches in the order of their creation: the
\* static cache is opened by the install handler, the frame cache later
CacheOrder == <<STATIC_CACHE, FRAME_CACHE>>

\* a URL: origin, the directories of its pathname, file name and extension
FrameUrl == [origin |-> "self", dirs |-> <<"frames">>, file |-> "001", ext |-> "png"]
PageUrl == [origin |-> "self", dirs |-> <<>>, file |-> "index", ext |-> "html"]
FontUrl == [origin |-> "cdn", dirs |-> <<"fonts">>, file |-> "inter", ext |-> "woff2"]
Urls == {FrameUrl, PageUrl, FontUrl}
\* the entries of STATIC_ASSETS among the URLs
STATIC_ASSETS == {PageUrl}
\* self.location.origin
SwOrigin == "self"

\* the contents a server can answer with
Bodies == {1, 2}

\* responses: none (undefined), one from the network, the synthetic one of
\* cacheFirst, and the failure of respondWith when it is handed no response
NoResponse == [kind |-> "none", ok |-> FALSE, status |-> 0, body |-> 0]
OkResponse(b) == [kind |-> "response", ok |-> TRUE, status |-> 200, body |-> b]
NotFound == [kind |-> "response", ok |-> FALSE, status |-> 404, body |-> 0]
Offline == [kind |-> "response", ok |-> FALSE, status |-> 408, body |-> 0]
NetworkError == [kind |-> "error", ok |-> FALSE, status |-> 0, body |-> 0]
\* how fetch(request) can settle: a response, ok or not, or a rejection
Rejected == [kind |-> "rejected", ok |-> FALSE, status |-> 0, body |-> 0]
Outcomes == { OkResponse(b) : b \in Bodies } \cup {NotFound, Rejected}

\* url.pathname.includes('/frames/') && url.pathname.endsWith('.png')
IsFrameRequest(u) == (\E j \in 1 .. Len(u.dirs) : u.dirs[j] = "frames") /\ u.ext = "png"

\* the fetch handler: strategy and cache for a request
Route(u) ==
    IF IsFrameRequest(u) THEN [strategy |-> "cacheFirst", cacheName |-> FRAME_CACHE]
    ELSE IF u.origin = SwOrigin
         THEN [strategy |-> "staleWhileRevalidate", cacheName |-> STATIC_CACHE]
         ELSE [strategy |-> "cacheFirst", cacheName |-> STATIC_CACHE]

\* caches.match(request): the first cache that holds the URL answers
RECURSIVE MatchFrom(_, _, _)
MatchFrom(cs, u, j) ==
    IF j > Len(CacheOrder) THEN NoResponse
    ELSE IF cs[CacheOrder[j]][u] # NoResponse THEN cs[CacheOrder[j]][u]
    ELSE MatchFrom(cs, u, j + 1)
CachesMatch(cs, u) == MatchFrom(cs, u, 1)

\* a fetch handler slot: idle, or a request with its position in the strategy
\* function (match: awaiting the cache lookup; fetch: the network request is
\* out; put: cache.put is still to complete; done), the cached copy it found,
\* the network response it holds and what it has answered the page
IdleTask == [pc |-> "idle", url |-> PageUrl, strategy |-> "none", cacheName |-> STATIC_CACHE,
             cached |-> NoResponse, response |-> NoResponse, responded |-> NoResponse]
\* at most this many fetch handlers run at the same time
MaxSwTasks == 2

\* sw.js before its install event
SwScriptInit ==
    /\ swInstalled = FALSE
    /\ cacheStorage = [c \in {STATIC_CACHE, FRAME_CACHE} |-> [u \in Urls |-> NoResponse]]
    /\ swTasks = [t \in 1 .. MaxSwTasks |-> IdleTask]

(* ---------------- initial state ---------------------------------------- *)
\* the lowest target frame the scroll inputs can produce (below 0 on overscroll)
LowestTarget(cfg) ==
    LET ts == { MapFrame(y, MaxScroll(l), cfg.FRAME_COUNT) : y \in ScrollYs, l \in Layouts }
    IN  CHOOSE m \in ts : \A t \in ts : m <= t

\* every index loadFrame can be called with
FetchIdx(cfg) == Min(LowestTarget(cfg), 0) .. (cfg.FRAME_COUNT - 1)

\* the module-level declarations of the script, before init() runs
ScriptInit(cfg, dom, l0) ==
    /\ CONFIG = cfg
    /\ DOM = dom
    /\ started = FALSE
    /\ initThrew = FALSE
    /\ scrollY = 0
    /\ layout = l0
    /\ bodyHeight = 0
    /\ navScrolled = FALSE
    /\ heroFaded = FALSE
    /\ styleTransform = [smoothContent |-> 0, layer1 |-> 0, layer2 |-> 0]
    /\ targetScrollY = 0
    /\ smoothScrollY = 0
    /\ targetScrollProgress = 0
    /\ smoothScrollProgress = 0
    /\ currentFrame = -Scale
    /\ displayedFrame = -1
    /\ targetFrame = 0
    /\ lastTime = 0
    /\ contentHeight = 0
    /\ canvas = [exists |-> TRUE, width |-> 300, height |-> 150, img |-> NoImage]
    /\ offscreen = NullSurface
    /\ canvasW = 0
    /\ canvasH = 0
    /\ dpr = 1
    /\ frames = [i \in FetchIdx(cfg) |-> NoImage]
    /\ frameStatus = [i \in 0 .. (cfg.FRAME_COUNT - 1) |-> 0]
    /\ anyFrameReady = FALSE
    /\ framesLoadedCount = 0
    /\ inflight = [i \in FetchIdx(cfg) |-> 0]
    /\ preloaderHidden = FALSE
    /\ preloadTimer = FALSE
    /\ resizeTimer = FALSE
    /\ now = 0
    /\ resizePending = {}
    /\ preloadDue = 0
    /\ rafPending = 0
    /\ calls = <<>>

\* no lerp experiment is running
NoProbe == [cur |-> 0, target |-> 0, factor |-> 0, dt |-> 0, steps |-> 0, one |-> 0, two |-> 0]

InitWith(cfg, dom, l0) == ScriptInit(cfg, dom, l0) /\ probe = NoProbe /\ SwScriptInit

Init == InitWith(SmallConfig, AllElements, InitialLayout)

(* ---------------- handlers --------------------------------------------- *)
\* onScroll that adds the offset to the previous target (targetScrollY += ...)
onScroll_Accumulating(y) ==
    /\ targetScrollY' = targetScrollY + y
    /\ targetScrollProgress' = MapProgress(targetScrollY + y, MaxScroll(layout))
    /\ targetFrame' = MapFrame(targetScrollY + y, MaxScroll(layout), CONFIG.FRAME_COUNT)
    /\ navScrolled' = IF "nav" \in DOM THEN y > 80 ELSE navScrolled
    /\ heroFaded' = IF "heroContent" \in DOM
                    THEN 100 * y > 15 * layout.innerHeight ELSE heroFaded

\* the assignments of onScroll() for the current window.scrollY = y
onScroll(y) ==
    /\ targetScrollY' = y
    /\ targetScrollProgress' = MapProgress(y, MaxScroll(layout))
    /\ targetFrame' = MapFrame(y, MaxScroll(layout), CONFIG.FRAME_COUNT)
    /\ navScrolled' = IF "nav" \in DOM THEN y > 80 ELSE navScrolled
    /\ heroFaded' = IF "heroContent" \in DOM
                    THEN 100 * y > 15 * layout.innerHeight ELSE heroFaded

\* the period of setInterval(proximityLoad, 80), in ms
LOAD_INTERVAL == 80

\* requestAnimationFrame(animate) that queues nothing
requestAnimationFrame_Dropped(pending) == pending

\* requestAnimationFrame(animate): one more callback queued for the next frame
requestAnimationFrame(pending) == pending + 1

\* init(): DOM lookup, canvas context, syncBodyHeight, preloadFrames (keyframes
\* and the loader interval), listeners, the first onScroll and the first rAF.
\* Without #frame-canvas, DOM.canvas.getContext throws and nothing else runs.
DoInit ==
    /\ ~started
    /\ started' = TRUE
    /\ calls' = <<>>
    /\ IF "canvas" \notin DOM
       THEN /\ initThrew' = TRUE
            /\ UNCHANGED <<clockVars, swVars, probe, CONFIG, DOM, envVars, stateVars, canvasVars, storeVars, timerVars>>
       ELSE /\ LET st == LoadEach([frameStatus |-> frameStatus, inflight |-> inflight],
                                  KeyFrames(CONFIG, 0))
               IN  /\ frameStatus' = st.frameStatus
                   /\ inflight' = st.inflight
            /\ preloadTimer' = TRUE
            /\ preloadDue' = now + LOAD_INTERVAL
            /\ IF "smoothContent" \in DOM
               THEN contentHeight' = ContentOffsetHeight(layout) /\ bodyHeight' = ContentOffsetHeight(layout)
               ELSE UNCHANGED <<contentHeight, bodyHeight>>
            /\ onScroll(scrollY)
            /\ rafPending' = requestAnimationFrame(rafPending)
            /\ UNCHANGED <<now, resizePending, swVars, probe, CONFIG, DOM, initThrew, scrollY, layout, styleTransform,
                           smoothScrollY, smoothScrollProgress, currentFrame, displayedFrame,
                           lastTime, canvasVars, frames, anyFrameReady, framesLoadedCount,
                           preloaderHidden, resizeTimer>>

\* a scroll event whose handler also moves the smoothed scroll position
Scroll_Jumps(y) ==
    /\ started /\ ~initThrew
    /\ scrollY' = y
    /\ onScroll(y)
    /\ smoothScrollY' = y * Scale
    /\ calls' = <<>>
    /\ UNCHANGED <<clockVars, swVars, probe, CONFIG, DOM, started, initThrew, layout, bodyHeight, styleTransform,
                   smoothScrollProgress, currentFrame, displayedFrame,
                   lastTime, contentHeight, canvasVars, storeVars, timerVars>>

\* a scroll event: the browser moves window.scrollY to y and calls onScroll
ScrollEvent(y) ==
    /\ started /\ ~initThrew
    /\ scrollY' = y
    /\ onScroll(y)
    /\ calls' = <<>>
    /\ UNCHANGED <<clockVars, swVars, CONFIG, DOM, started, initThrew, layout, bodyHeight, styleTransform,
                   smoothScrollY, smoothScrollProgress, currentFrame, displayedFrame,
                   lastTime, contentHeight, canvasVars, storeVars, timerVars>>

Scroll(y) == ScrollEvent(y) /\ UNCHANGED probe

\* a loader tick that clears the interval only when every frame is Ready
LoaderTick_StopsWhenReady ==
    /\ preloadTimer
    /\ \E st \in { proximityLoad(CONFIG, [frameStatus |-> frameStatus, inflight |-> inflight],
                                  targetFrame) } :
           /\ frameStatus' = st.frameStatus
           /\ inflight' = st.inflight
           /\ preloadTimer' = ~(\A i \in DOMAIN st.frameStatus : st.frameStatus[i] >= 2)
    /\ preloadDue' = IF preloadTimer' THEN now + LOAD_INTERVAL ELSE 0
    /\ calls' = <<>>
    /\ UNCHANGED <<now, resizePending, swVars, probe, CONFIG, DOM, started, initThrew, envVars, stateVars, canvasVars,
                   frames, anyFrameReady, framesLoadedCount, preloaderHidden,
                   resizeTimer, rafPending>>

\* the callback of setInterval(proximityLoad, 80): the two loops, and
\* clearInterval once no frame is Unrequested; while the interval stays armed
\* its next firing is LOAD_INTERVAL ms away
LoaderTick ==
    /\ preloadTimer
    /\ \E st \in { proximityLoad(CONFIG, [frameStatus |-> frameStatus, inflight |-> inflight],
                                  targetFrame) } :
           /\ frameStatus' = st.frameStatus
           /\ inflight' = st.inflight
           /\ preloadTimer' = ~(\A i \in DOMAIN st.frameStatus : st.frameStatus[i] >= 1)
    /\ preloadDue' = IF preloadTimer' THEN now + LOAD_INTERVAL ELSE 0
    /\ calls' = <<>>
    /\ UNCHANGED <<now, resizePending, swVars, probe, CONFIG, DOM, started, initThrew, envVars, stateVars, canvasVars,
                   frames, anyFrameReady, framesLoadedCount, preloaderHidden,
                   resizeTimer, rafPending>>

\* resizeCanvas(): the scalar assignments; the caller takes the two blank
\* surfaces (visible canvas and offscreen buffer) from FreshSurface
resizeCanvas ==
    /\ dpr' = CappedDpr(layout)
    /\ canvasW' = layout.innerWidth
    /\ canvasH' = layout.innerHeight
    /\ displayedFrame' = -1

\* updatePreloader(): the preloader hides once enough frames are counted
updatePreloader(count) ==
    preloaderHidden' = (preloaderHidden \/
                        (count >= CONFIG.MIN_FRAMES_TO_START /\ "preloader" \in DOM))

\* onFrameReady without the anyFrameReady test: every success sizes and draws
onFrameReady_Always(index) ==
    /\ framesLoadedCount' = framesLoadedCount + 1
    /\ updatePreloader(framesLoadedCount + 1)
    /\ anyFrameReady' = TRUE
    /\ resizeCanvas
    /\ offscreen' = drawFrameToBuffer(FreshSurface(layout), frames',
                                      CONFIG.FRAME_COUNT, index)
    /\ canvas' = blitBuffer(FreshSurface(layout), offscreen')
    /\ calls' = <<"resizeCanvas", "drawFrameToBuffer", "blitBuffer">>

\* onFrameReady(index), entered with frames' already holding the new image
onFrameReady(index) ==
    /\ framesLoadedCount' = framesLoadedCount + 1
    /\ updatePreloader(framesLoadedCount + 1)
    /\ IF ~anyFrameReady
       THEN /\ anyFrameReady' = TRUE
            /\ resizeCanvas
            /\ offscreen' = drawFrameToBuffer(FreshSurface(layout), frames',
                                              CONFIG.FRAME_COUNT, index)
            /\ canvas' = blitBuffer(FreshSurface(layout), offscreen')
            /\ calls' = <<"resizeCanvas", "drawFrameToBuffer", "blitBuffer">>
       ELSE /\ calls' = <<>>
            /\ UNCHANGED <<anyFrameReady, canvasVars, displayedFrame>>

\* the frames that are Ready
Ready(fs) == { i \in DOMAIN fs : fs[i] = 2 }

\* img.onload of the Image loading `index`.  frames is an Array, which takes
\* the image at any index, also one outside 0..FRAME_COUNT-1 (the URL
\* numbered 000 or below may exist on the server); frameStatus ignores the
\* write there.
OnLoad(index) ==
    /\ index \in DOMAIN inflight
    /\ inflight[index] > 0
    /\ inflight' = [inflight EXCEPT ![index] = @ - 1]
    /\ frames' = [frames EXCEPT ![index] = frameUrl(index)]
    /\ frameStatus' = StatusPut(frameStatus, index, 2)
    /\ onFrameReady(index)
    /\ UNCHANGED <<clockVars, swVars, probe, CONFIG, DOM, started, initThrew, envVars, targetScrollY, smoothScrollY,
                   targetScrollProgress, smoothScrollProgress, currentFrame, targetFrame,
                   lastTime, contentHeight, timerVars>>

\* img.onerror that counts the failed frame as loaded (img.onerror = onReady)
OnError_Counts(index) ==
    /\ index \in DOMAIN inflight
    /\ inflight[index] > 0
    /\ inflight' = [inflight EXCEPT ![index] = @ - 1]
    /\ frameStatus' = StatusPut(frameStatus, index, 0)
    /\ framesLoadedCount' = framesLoadedCount + 1
    /\ calls' = <<>>
    /\ UNCHANGED <<clockVars, swVars, probe, CONFIG, DOM, started, initThrew, envVars, stateVars, canvasVars,
                   frames, anyFrameReady, preloaderHidden, timerVars>>

\* img.onerror of an Image loading `index`
OnError(index) ==
    /\ index \in DOMAIN inflight
    /\ inflight[index] > 0
    /\ inflight' = [inflight EXCEPT ![index] = @ - 1]
    /\ frameStatus' = StatusPut(frameStatus, index, 0)
    /\ calls' = <<>>
    /\ UNCHANGED <<clockVars, swVars, probe, CONFIG, DOM, started, initThrew, envVars, stateVars, canvasVars,
                   frames, anyFrameReady, framesLoadedCount, preloaderHidden, timerVars>>

\* the clamp without its lower bound (Math.min only)
ClampFrame_NoFloor(renderFrame, n) == Min(renderFrame, n - 1)

\* the frame animate() hands to the compositor: renderFrame clamped to the range
ClampFrame(renderFrame, n) == Min(Max(renderFrame, 0), n - 1)

\* the test of animate() that decides whether the tick draws
ShouldDraw(renderFrame, marker, ready) == renderFrame # marker /\ ready

\* animate(timestamp): the browser takes the callback off its queue and runs
\* it; the tick ends by queueing itself again
animate(timestamp) ==
    /\ rafPending > 0
    /\ LET dt == DeltaTime(timestamp, lastTime)
           sy == lerp(smoothScrollY, targetScrollY * Scale, LERP_FACTOR, dt)
           sf == lerp(IF currentFrame < 0 THEN targetFrame * Scale ELSE currentFrame,
                      targetFrame * Scale, CANVAS_LERP, dt)
           renderFrame == Round(sf)
           cf == ClampFrame(renderFrame, CONFIG.FRAME_COUNT)
       IN  /\ lastTime' = timestamp
           /\ smoothScrollY' = sy
           /\ smoothScrollProgress' =
                  lerp(smoothScrollProgress, targetScrollProgress, CANVAS_LERP, dt)
           /\ styleTransform' =
                  [smoothContent |-> IF "smoothContent" \in DOM THEN -sy
                                     ELSE styleTransform.smoothContent,
                   layer1 |-> IF "layer1" \in DOM THEN -RoundDiv(sy, 5)
                              ELSE styleTransform.layer1,
                   layer2 |-> IF "layer2" \in DOM THEN -RoundDiv(sy, 2)
                              ELSE styleTransform.layer2]
           /\ currentFrame' = sf
           /\ IF ShouldDraw(renderFrame, displayedFrame, anyFrameReady)
              THEN /\ offscreen' = drawFrameToBuffer(offscreen, frames, CONFIG.FRAME_COUNT, cf)
                   /\ canvas' = blitBuffer(canvas, offscreen')
                   /\ displayedFrame' = cf
                   /\ calls' = <<"drawFrameToBuffer", "blitBuffer">>
              ELSE /\ calls' = <<>>
                   /\ UNCHANGED <<offscreen, canvas, displayedFrame>>
    /\ rafPending' = requestAnimationFrame(rafPending - 1)
    /\ UNCHANGED <<clockVars, swVars, CONFIG, DOM, started, initThrew, scrollY, layout, bodyHeight, navScrolled,
                   heroFaded, targetScrollY, targetScrollProgress, targetFrame, contentHeight,
                   canvasW, canvasH, dpr, storeVars, preloadTimer, resizeTimer>>

Animate(timestamp) == animate(timestamp) /\ UNCHANGED probe

\* the delay of the onResize timeout (ms)
RESIZE_DEBOUNCE == 100

SetMin(S) == CHOOSE x \in S : \A y \in S : x <= y
SetMax(S) == CHOOSE x \in S : \A y \in S : x >= y

\* clearTimeout(resizeTimer): resizeTimer names the timeout set last, which
\* is the one due last when it is still pending
clearTimeout(pending) == IF pending = {} THEN {} ELSE pending \ {SetMax(pending)}

\* onResize that sets its timeout without clearing the previous one
onResize_NoClear(pending, t) == pending \cup {t + RESIZE_DEBOUNCE}

\* onResize() called at time t, on the pending timeouts
onResize(pending, t) == clearTimeout(pending) \cup {t + RESIZE_DEBOUNCE}

\* a resize event: the window takes layout l and onResize() re-arms its timer
Resize(l) ==
    /\ started /\ ~initThrew
    /\ l # layout
    /\ layout' = l
    /\ resizePending' = onResize(resizePending, now)
    /\ resizeTimer' = TRUE
    /\ calls' = <<>>
    /\ UNCHANGED <<now, preloadDue, swVars, probe, CONFIG, DOM, started, initThrew, scrollY, bodyHeight, navScrolled,
                   heroFaded, styleTransform, stateVars, canvasVars, storeVars,
                   preloadTimer, rafPending>>

\* the debounced callback of onResize, run for the timeout that is due first:
\* resizeCanvas, syncBodyHeight and a redraw guarded by the marker
\* resizeCanvas has just reset
ResizeTimeout ==
    /\ resizeTimer
    /\ resizePending # {}
    /\ resizePending' = resizePending \ {SetMin(resizePending)}
    /\ resizeTimer' = (resizePending' # {})
    /\ resizeCanvas
    /\ IF "smoothContent" \in DOM
       THEN contentHeight' = ContentOffsetHeight(layout) /\ bodyHeight' = ContentOffsetHeight(layout)
       ELSE UNCHANGED <<contentHeight, bodyHeight>>
    /\ IF displayedFrame' >= 0
       THEN /\ offscreen' = drawFrameToBuffer(FreshSurface(layout), frames,
                                              CONFIG.FRAME_COUNT, displayedFrame')
            /\ canvas' = blitBuffer(FreshSurface(layout), offscreen')
            /\ calls' = <<"resizeCanvas", "drawFrameToBuffer", "blitBuffer">>
       ELSE /\ offscreen' = FreshSurface(layout)
            /\ canvas' = FreshSurface(layout)
            /\ calls' = <<"resizeCanvas">>
    /\ UNCHANGED <<now, preloadDue, swVars, probe, CONFIG, DOM, started, initThrew, scrollY, layout, navScrolled, heroFaded,
                   styleTransform, targetScrollY, smoothScrollY, targetScrollProgress,
                   smoothScrollProgress, currentFrame, targetFrame, lastTime, storeVars,
                   preloadTimer, rafPending>>

\* the timestamps the next tick can be called with
TickTimes(deltas) == { lastTime + d : d \in deltas } \cap (0 .. MaxTime)

\* time passes until the loader interval, which is armed, is due next, as
\* long as that is no later than the time `until`
TimePasses(until) ==
    /\ preloadTimer
    /\ now < preloadDue
    /\ preloadDue <= until
    /\ now' = preloadDue
    /\ UNCHANGED <<resizePending, preloadDue, swVars, pageVarsNoClock>>

\* the loader interval fires: it is armed and due, and proximityLoad runs
LoaderTickDue ==
    /\ now = preloadDue
    /\ LoaderTick

Next ==
    \/ DoInit
    \/ \E y \in ScrollYs : Scroll(y)
    \/ TimePasses(MaxLoaderTime)
    \/ LoaderTickDue
    \/ \E i \in DOMAIN inflight : OnLoad(i)
    \/ \E i \in DOMAIN inflight : OnError(i)
    \/ \E t \in TickTimes(Deltas) : Animate(t)
    \/ \E l \in Layouts : Resize(l)
    \/ ResizeTimeout

Spec == Init /\ [][Next]_vars

(* ---------------- the loader under fair scheduling --------------------- *)
\* frame store and loader alone: init, scroll events within the extent, the
\* loader timer (firing at any time while it is armed) and the completion
\* callbacks
NextLoader ==
    \/ DoInit
    \/ \E y \in { v \in ScrollYs : v >= 0 } : Scroll(y)
    \/ LoaderTick
    \/ \E i \in DOMAIN inflight : OnLoad(i)
    \/ \E i \in DOMAIN inflight : OnError(i)

\* init runs, an armed interval keeps firing, and every fetch completes
SpecLoaderFair ==
    /\ Init
    /\ [][NextLoader]_vars
    /\ WF_vars(DoInit)
    /\ WF_vars(LoaderTick)
    /\ WF_vars(\E i \in DOMAIN inflight : OnLoad(i) \/ OnError(i))

(* ======================= claims ======================================== *)

\* C1: a frame that is Ready stays Ready and keeps its image, in every step
\* of every handler.
C1_ReadyIsFinal ==
    [][\A i \in FrameIdx :
          frameStatus[i] = 2 => (frameStatus'[i] = 2 /\ frames'[i] = frames[i])]_vars

\* a frame is Ready while another keyframe has failed, ticks have run and the
\* canvas has been resized to the second layout
C1_Witness ==
    /\ frameStatus[0] = 2
    /\ frames[0] = frameUrl(0)
    /\ frameStatus[2] = 0
    /\ lastTime > 0
    /\ canvasW = 3

\* C3: a step in which a Loading frame reverts to Unrequested changes nothing
\* but that frame's status and its pending fetch; its image slot stays empty
\* and the animation loop stays scheduled.
C3_FailureAbsorbed ==
    [][\A i \in FrameIdx :
          (frameStatus[i] = 1 /\ frameStatus'[i] = 0) =>
             /\ frames[i] = NoImage
             /\ \A j \in FrameIdx \ {i} : frameStatus'[j] = frameStatus[j]
             /\ rafPending' > 0
             /\ UNCHANGED <<frames, framesLoadedCount, anyFrameReady, preloaderHidden,
                            envVars, stateVars, canvasVars, preloadTimer, resizeTimer,
                            rafPending>>]_vars

\* a keyframe has failed after frames became Ready and ticks ran
C3_Witness ==
    /\ started
    /\ frameStatus[0] = 0
    /\ anyFrameReady
    /\ framesLoadedCount = 1
    /\ rafPending > 0
    /\ lastTime > 0

\* C4: every frame whose load fails is requested again: once init has run, a
\* frame that is Unrequested eventually is Loading or Ready.
C4_EveryFailureRetried ==
    \A i \in 0 .. (SmallFrames - 1) :
        [](started /\ frameStatus[i] = 0 => <>(frameStatus[i] >= 1))

\* C5: the image drawFrameToBuffer picks is the one of the nearest Ready frame,
\* the lower index on a tie, and none exactly when no frame is Ready.
ReadySet(f) == { i \in DOMAIN f : i >= 0 /\ f[i] # NoImage }
RefNearest(f, index) ==
    IF ReadySet(f) = {} THEN NoImage
    ELSE f[CHOOSE r \in ReadySet(f) : \A q \in ReadySet(f) :
               \/ Abs(r - index) < Abs(q - index)
               \/ (Abs(r - index) = Abs(q - index) /\ r <= q)]
ExampleFrames == [i \in 0 .. 19 |-> IF i \in {5, 9} THEN frameUrl(i) ELSE NoImage]
C5_NearestReady ==
    /\ \A index \in FrameIdx :
          /\ PickImage(frames, CONFIG.FRAME_COUNT, index) = RefNearest(frames, index)
          /\ (PickImage(frames, CONFIG.FRAME_COUNT, index) = NoImage <=> ReadySet(frames) = {})
    /\ PickImage(ExampleFrames, 20, 7) = frameUrl(5)

\* frames 0 and 2 are Ready, frame 1 is not, and the tick that drew frame 1
\* put the image of frame 0 on the canvas
C5_Witness ==
    /\ frames[0] # NoImage /\ frames[1] = NoImage /\ frames[2] # NoImage
    /\ displayedFrame = 1
    /\ canvas.img = frameUrl(0)

(* ---------------- the mapper on the shipped configuration -------------- *)
\* FRAME_COUNT = 150: init, scroll events and resizes
NextMapper ==
    \/ DoInit
    \/ \E y \in MapperScrollYs : Scroll(y)
    \/ \E l \in MapperLayouts : Resize(l)
    \/ ResizeTimeout

SpecMapper ==
    InitWith(RealConfig, AllElements, MapperInitialLayout) /\ [][NextMapper]_vars

\* an animation tick of Spec
TickStep == \E t \in TickTimes(Deltas) : Animate(t)

\* C6: a tick whose rounded smoothed frame equals the marker calls neither
\* drawFrameToBuffer nor blitBuffer and leaves the marker alone; and a tick
\* that follows a drawing tick with the smoothed frame already converged, no
\* event in between, draws nothing.
C6_NoRedundantDraw ==
    [][TickStep =>
         /\ (Round(currentFrame') = displayedFrame =>
                (calls' = <<>> /\ UNCHANGED <<displayedFrame, canvas, offscreen>>))
         /\ ((calls = <<"drawFrameToBuffer", "blitBuffer">>
              /\ currentFrame = targetFrame * Scale) => calls' = <<>>)]_vars

\* C7: the marker names the image on the visible canvas, and it is -1 exactly
\* when the canvas is blank.
C7_MarkerNamesCanvas ==
    /\ (displayedFrame >= 0 => canvas.img = frameUrl(displayedFrame))
    /\ (displayedFrame = -1 <=> canvas.img = NoImage)

\* C8: resizeCanvas resets the marker, and with a frame Ready the next tick
\* draws and blits at the size of the new buffer.
C8_ResizeForcesRedraw ==
    [][/\ ((calls' # <<>> /\ Head(calls') = "resizeCanvas") => displayedFrame' = -1)
       /\ ((TickStep /\ displayedFrame = -1 /\ \E i \in FrameIdx : frameStatus[i] = 2) =>
              /\ calls' = <<"drawFrameToBuffer", "blitBuffer">>
              /\ displayedFrame' # -1
              /\ canvas'.img # NoImage
              /\ canvas'.width = canvasW * dpr /\ canvas'.height = canvasH * dpr)]_vars

\* C9: after onScroll the target progress is clamp(O / M, 0, 1) and the target
\* frame is in [0, N - 1]; no frame outside that range is requested.
ClampProgress(y, max) ==
    IF max > 0 THEN Max(0, Min(Scale, RoundDiv(y * Scale, max))) ELSE 0
C9_MapperClamped ==
    /\ [](\A j \in DOMAIN inflight : j \notin FrameIdx => inflight[j] = 0)
    /\ [][(\E y \in ScrollYs : Scroll(y)) =>
            /\ targetScrollProgress' = ClampProgress(scrollY', MaxScroll(layout'))
            /\ targetFrame' \in FrameIdx]_vars

\* C10 as stated: for 0 <= O <= M the target frame is O * (N - 1) / M rounded
\* to the nearest integer, halves up; with no extent, progress and frame are 0.
NearestHalfUp(k, num, den) == (2 * k - 1) * den <= 2 * num /\ 2 * num < (2 * k + 1) * den
C10_MapperRoundsHalfUp ==
    [][(\E y \in MapperScrollYs : Scroll(y)) =>
         LET O == scrollY'
             M == MaxScroll(layout')
         IN  /\ (M > 0 /\ 0 <= O /\ O <= M) =>
                    NearestHalfUp(targetFrame', O * (CONFIG.FRAME_COUNT - 1), M)
             /\ (M <= 0) => (targetScrollProgress' = 0 /\ targetFrame' = 0)]_vars

\* C10, amended: the target frame is a nearest integer of O * (N - 1) / M (at
\* most one half away; at an exact half-integer either neighbour), the three
\* scenarios of extent 1000 give 0, 75 and 149, and with no extent progress
\* and frame are 0.
NearestInteger(k, num, den) == (2 * k - 1) * den <= 2 * num /\ 2 * num <= (2 * k + 1) * den
C10_MapperRoundsNearest ==
    [][(\E y \in MapperScrollYs : Scroll(y)) =>
         LET O == scrollY'
             M == MaxScroll(layout')
         IN  /\ (M > 0 /\ 0 <= O /\ O <= M) =>
                    NearestInteger(targetFrame', O * (CONFIG.FRAME_COUNT - 1), M)
             /\ (M = 1000 /\ O = 0) => (targetScrollProgress' = 0 /\ targetFrame' = 0)
             /\ (M = 1000 /\ O = 500) =>
                    (2 * targetScrollProgress' = Scale /\ targetFrame' = 75)
             /\ (M = 1000 /\ O = 1000) => (targetScrollProgress' = Scale /\ targetFrame' = 149)
             /\ (M <= 0) => (targetScrollProgress' = 0 /\ targetFrame' = 0)]_vars

\* offset 500 of extent 1000 has been mapped to frame 75 of 150
C10_Witness ==
    /\ CONFIG.FRAME_COUNT = 150
    /\ targetScrollY = 500
    /\ MaxScroll(layout) = 1000
    /\ 2 * targetScrollProgress = Scale
    /\ targetFrame = 75

\* C11: after the resize handler has run, the target progress and the target
\* frame are the mapping of the current scroll offset against the new extent
\* (offsets within the new extent, no scroll event needed).
C11_ResizeRemaps ==
    [][(ResizeTimeout /\ 0 <= scrollY /\ scrollY <= MaxScroll(layout)) =>
         /\ targetScrollProgress' = MapProgress(scrollY', MaxScroll(layout'))
         /\ targetFrame' = MapFrame(scrollY', MaxScroll(layout'), CONFIG.FRAME_COUNT)]_vars

\* C12: right after init has run preloadFrames with N = 150 the Loading frames
\* are exactly the 20 indices round(i * 149 / 19), i = 0 .. 19 (0, 8, 16, ...,
\* 149), each with one fetch pending, every other frame is Unrequested and the
\* loader timer is armed.
SeedSet ==
    {0, 8, 16, 24, 31, 39, 47, 55, 63, 71, 78, 86, 94, 102, 110, 118, 125, 133, 141, 149}
C12_SeedPhase ==
    [][DoInit =>
         /\ Cardinality(SeedSet) = 20
         /\ SeedSet = { k \in FrameIdx : \E i \in 0 .. 19 :
                          (2 * k - 1) * 19 <= 2 * i * 149 /\ 2 * i * 149 < (2 * k + 1) * 19 }
         /\ { k \in FrameIdx : frameStatus'[k] = 1 } = SeedSet
         /\ \A k \in FrameIdx \ SeedSet : frameStatus'[k] = 0 /\ inflight'[k] = 0
         /\ \A k \in SeedSet : inflight'[k] = 1
         /\ preloadTimer']_vars

\* init has run on the shipped configuration: frames 8 and 149 are Loading,
\* frame 1 is not requested and the loader timer is armed
C12_Witness ==
    /\ CONFIG.FRAME_COUNT = 150 /\ CONFIG.keyCount = 20
    /\ started
    /\ frameStatus[8] = 1 /\ frameStatus[149] = 1 /\ frameStatus[1] = 0
    /\ preloadTimer

(* ---------------- the loader on a mid-size configuration --------------- *)
\* frames outside the proximity radius exist and the trickle batch is larger
\* than one
LoaderFrames == 5
LoaderRadius == 1
LoaderBatch == 2
LoaderKeyCount == 2
LoaderConfig == [FRAME_COUNT |-> LoaderFrames, PRELOAD_RADIUS |-> LoaderRadius,
                 BATCH_LOAD |-> LoaderBatch, MIN_FRAMES_TO_START |-> SmallMinFrames,
                 keyCount |-> LoaderKeyCount]
\* window.scrollY values of the loader specification (extent 2)
LoaderScrollYs == {-1, 0, 1, 2}

NextLoaderMid ==
    \/ DoInit
    \/ \E y \in LoaderScrollYs : Scroll(y)
    \/ TimePasses(MaxLoaderTimeLong)
    \/ LoaderTickDue
    \/ \E i \in DOMAIN inflight : OnLoad(i)
    \/ \E i \in DOMAIN inflight : OnError(i)

SpecLoader == InitWith(LoaderConfig, AllElements, InitialLayout) /\ [][NextLoaderMid]_vars

\* C2: at most one fetch is in flight per frame index (exactly one while the
\* frame is Loading); no step of any handler starts a fetch for a frame that
\* is Loading or Ready; and the loader ticks, which request such frames
\* again, leave their status and their fetch as they are.
C2_LoadIdempotent ==
    /\ [](\A i \in FrameIdx :
            /\ inflight[i] <= 1
            /\ (inflight[i] = 1 <=> frameStatus[i] = 1))
    /\ [][\A i \in FrameIdx : frameStatus[i] >= 1 => inflight'[i] <= inflight[i]]_vars
    /\ [][LoaderTick => \A i \in FrameIdx :
             frameStatus[i] >= 1 =>
                 (frameStatus'[i] = frameStatus[i] /\ inflight'[i] = inflight[i])]_vars

\* the loader timer has fired twice and is armed for a third time: frame 0
\* is Ready and the target, frame 1 next to it is still Loading with its one
\* fetch, and a request for the index below 0 is pending as well
C2_Witness ==
    /\ now >= 160 /\ preloadTimer /\ preloadDue = now + LOAD_INTERVAL
    /\ targetFrame = 0
    /\ frameStatus[0] = 2
    /\ frameStatus[1] = 1 /\ inflight[1] = 1
    /\ inflight[-2] >= 1

\* C13: at the end of a loader tick every frame within PRELOAD_RADIUS of the
\* target frame read by the tick is Loading or Ready; the proximity requests
\* come in non-decreasing distance from the target and all of them precede
\* the trickle requests, which therefore pick frames outside the radius only.
C13_ProximityCovered ==
    /\ [][LoaderTick =>
            /\ \A i \in FrameIdx :
                  Abs(i - targetFrame) <= CONFIG.PRELOAD_RADIUS => frameStatus'[i] >= 1
            /\ LET st == [frameStatus |-> frameStatus, inflight |-> inflight]
                   prox == ProximityCalls(CONFIG, targetFrame, 0)
                   near == LoadEach(st, prox)
                   trickle == TrickleCalls(CONFIG, near.frameStatus, 0, 0)
               IN  /\ frameStatus' = LoadEach(st, prox \o trickle).frameStatus
                   /\ \A j \in 1 .. Len(trickle) :
                         Abs(trickle[j] - targetFrame) > CONFIG.PRELOAD_RADIUS]_vars
    /\ [](LET prox == ProximityCalls(CONFIG, targetFrame, 0)
          IN  \A j, k \in 1 .. Len(prox) :
                 j < k => Abs(prox[j] - targetFrame) <= Abs(prox[k] - targetFrame))

\* a loader tick has run with the target at the last frame: its neighbour is
\* Loading while a frame outside the radius is still Unrequested
C13_Witness ==
    /\ CONFIG.FRAME_COUNT = LoaderFrames
    /\ targetFrame = LoaderFrames - 1
    /\ frameStatus[LoaderFrames - 2] = 1
    /\ frameStatus[LoaderFrames - 1] = 1
    /\ frameStatus[2] = 0
    /\ preloadTimer

\* C14: in a loader tick, with u frames Unrequested after the proximity scan,
\* the trickle scan moves exactly min(BATCH_LOAD, u) of them to Loading, the
\* lowest-indexed ones, and no other frame's status changes.
C14_TrickleBatch ==
    [][LoaderTick =>
         LET near == LoadEach([frameStatus |-> frameStatus, inflight |-> inflight],
                              ProximityCalls(CONFIG, targetFrame, 0)).frameStatus
             unrequested == { i \in FrameIdx : near[i] = 0 }
             picked == { i \in unrequested : frameStatus'[i] = 1 }
         IN  /\ Cardinality(picked) = Min(CONFIG.BATCH_LOAD, Cardinality(unrequested))
             /\ \A p \in picked : \A q \in unrequested \ picked : p < q
             /\ \A p \in picked : inflight'[p] = 1
             /\ \A i \in FrameIdx \ picked : frameStatus'[i] = near[i]]_vars

\* with the target at frame 0 the frames 2 and 3 (outside the radius) are
\* Loading while frame 4, whose load had failed, is still Unrequested: more
\* frames were Unrequested than one batch takes
C14_Witness ==
    /\ CONFIG.FRAME_COUNT = LoaderFrames /\ CONFIG.BATCH_LOAD = LoaderBatch
    /\ targetFrame = 0
    /\ frameStatus[0] >= 1 /\ frameStatus[1] >= 1
    /\ frameStatus[2] = 1 /\ frameStatus[3] = 1
    /\ frameStatus[4] = 0
    /\ preloadTimer

\* C15: a loader tick leaves the timer armed exactly when some frame is still
\* Unrequested at its end; the timer is cancelled by a loader tick only, with
\* no frame Unrequested; and once cancelled it stays cancelled and no frame
\* goes from Unrequested to Loading any more.
C15_TimerStopsAtCoverage ==
    /\ [][LoaderTick => (preloadTimer' <=> \E i \in FrameIdx : frameStatus'[i] = 0)]_vars
    /\ [][(preloadTimer /\ ~preloadTimer') =>
            (LoaderTick /\ \A i \in FrameIdx : frameStatus'[i] >= 1)]_vars
    /\ [][(started /\ ~preloadTimer) =>
            /\ ~preloadTimer'
            /\ ~LoaderTick
            /\ \A i \in FrameIdx : frameStatus[i] = 0 => frameStatus'[i] = 0]_vars

\* the timer has been cancelled at full coverage; afterwards the load of the
\* first frame failed and that frame is Unrequested with the timer off
C15_Witness ==
    /\ CONFIG.FRAME_COUNT = LoaderFrames
    /\ started
    /\ ~preloadTimer
    /\ frameStatus[0] = 0
    /\ \A i \in FrameIdx \ {0} : frameStatus[i] >= 1

\* the mid-size loader with scroll events within the extent and the loader
\* timer firing at any time while it is armed
NextLoaderCover ==
    \/ DoInit
    \/ \E y \in { v \in LoaderScrollYs : v >= 0 } : Scroll(y)
    \/ LoaderTick
    \/ \E i \in DOMAIN inflight : OnLoad(i)
    \/ \E i \in DOMAIN inflight : OnError(i)

\* the mid-size loader with init running, an armed interval firing again and
\* again, and every pending fetch completing
SpecLoaderCoverFair ==
    /\ InitWith(LoaderConfig, AllElements, InitialLayout)
    /\ [][NextLoaderCover]_vars
    /\ WF_vars(DoInit)
    /\ WF_vars(LoaderTick)
    /\ WF_vars(\E i \in DOMAIN inflight : OnLoad(i) \/ OnError(i))

\* C16: under fair firing of the loader timer every frame is eventually
\* Loading or Ready, wherever the target frame is, and the loader timer
\* eventually terminates.
C16_EventualCoverage ==
    /\ \A i \in 0 .. (LoaderFrames - 1) : <>(frameStatus[i] >= 1)
    /\ <>(started /\ ~preloadTimer)

\* C17: the load success that finds anyFrameReady false runs resizeCanvas, a
\* draw of that frame and a blit, in this order; every other load success
\* makes no compositor call and leaves canvas, buffer, sizes and marker alone;
\* anyFrameReady never goes back to false.
C17_OneTimeInit ==
    /\ [][\A i \in DOMAIN inflight : OnLoad(i) =>
            IF ~anyFrameReady
            THEN /\ anyFrameReady'
                 /\ calls' = <<"resizeCanvas", "drawFrameToBuffer", "blitBuffer">>
                 /\ canvasW' = layout.innerWidth /\ canvasH' = layout.innerHeight
                 /\ offscreen'.img = frameUrl(i)
                 /\ canvas'.img = frameUrl(i)
            ELSE /\ calls' = <<>>
                 /\ UNCHANGED <<canvasVars, displayedFrame, anyFrameReady>>]_vars
    /\ [][anyFrameReady => anyFrameReady']_vars

\* a second frame became Ready after the first one was drawn: the canvas still
\* shows the first frame and the last handler made no compositor call
C17_Witness ==
    /\ anyFrameReady
    /\ framesLoadedCount = 2
    /\ frameStatus[0] = 2 /\ frameStatus[2] = 2
    /\ canvas.img = frameUrl(2)
    /\ displayedFrame = -1
    /\ calls = <<>>

\* C18: the preloader is hidden exactly when at least MIN_FRAMES_TO_START
\* distinct frames are Ready, so it is shown below the threshold and hides at
\* the success that reaches it; once hidden it stays hidden, whatever fails
\* later.
C18_ReadinessLatch ==
    /\ [](preloaderHidden <=>
             Cardinality(Ready(frameStatus)) >= CONFIG.MIN_FRAMES_TO_START)
    /\ [][preloaderHidden => preloaderHidden']_vars

(* ---------------- lerp applied repeatedly -------------------------------- *)
\* current values -1, 0, 0.3, 0.5, 1.236, 22, 75.4, 76 and 120 and targets 0
\* and 75 (fixed point), the two factors of CONFIG and the tick lengths
\* 0.016, 0.05 and 0.1 s
LerpStarts == { v * (Scale \div 1000) : v \in {-1000, 0, 300, 500, 1236, 22000, 75400, 76000, 120000} }
LerpTargets == {0, 75 * Scale}
LerpFactors == {LERP_FACTOR, CANVAS_LERP}
LerpDts == {16, 50, 100}
\* lerp is applied at most this many times to one input
LerpMaxSteps == 75

\* dt values whose double the power table covers
HasDouble(dt) == 2 * dt \in DOMAIN MathPowLerp

\* one more application of lerp to the probe; `one` and `two` are the results
\* of one update with 2 * dt and of two updates with dt from the same value
LerpStep ==
    /\ probe.dt # 0
    /\ probe.steps < LerpMaxSteps
    /\ LET once == lerp(probe.cur, probe.target, probe.factor, probe.dt)
       IN  probe' = [probe EXCEPT
                       !.cur = once,
                       !.steps = @ + 1,
                       !.one = IF HasDouble(probe.dt)
                               THEN lerp(probe.cur, probe.target, probe.factor, 2 * probe.dt)
                               ELSE once,
                       !.two = IF HasDouble(probe.dt)
                               THEN lerp(once, probe.target, probe.factor, probe.dt)
                               ELSE once]
    /\ UNCHANGED <<clockVars, swVars, CONFIG, DOM, started, initThrew, envVars, stateVars, canvasVars,
                   storeVars, timerVars, calls>>

\* the engine as constructed, with one interpolation probe chosen
LerpInit ==
    /\ ScriptInit(RealConfig, AllElements, MapperInitialLayout)
    /\ probe \in { [cur |-> c, target |-> t, factor |-> f, dt |-> d, steps |-> 0,
                    one |-> c, two |-> c] :
                   c \in LerpStarts, t \in LerpTargets, f \in LerpFactors, d \in LerpDts }
    /\ SwScriptInit

SpecLerp ==
    /\ LerpInit
    /\ [][LerpStep]_vars

\* C19: with target, factor and dt fixed, every application of lerp brings the
\* value strictly closer to the target unless it is there already, never
\* takes it to the other side, keeps it at the target once reached, and the
\* target is reached exactly within LerpMaxSteps applications.
C19_LerpConverges ==
    /\ [][LerpStep =>
            /\ (probe.cur = probe.target => probe'.cur = probe.target)
            /\ (probe.cur # probe.target =>
                   Abs(probe.target - probe'.cur) < Abs(probe.target - probe.cur))
            /\ (probe.cur < probe.target => probe'.cur <= probe.target)
            /\ (probe.cur > probe.target => probe'.cur >= probe.target)]_vars
    /\ [](probe.steps = LerpMaxSteps => probe.cur = probe.target)

\* lerp has been applied repeatedly with dt = 0.016 and the value has arrived
\* at the target 75
C19_Witness ==
    /\ probe.dt = 16 /\ probe.factor = LERP_FACTOR
    /\ probe.target = 75 * Scale
    /\ probe.steps > 0
    /\ probe.cur = probe.target

\* C20: one update with dt = 2h and two updates with dt = h from the same
\* value agree within 0.00002 (the rounding of the intermediate value) when
\* both or neither ended in the snap, and within the snap distance 0.5 more
\* when only one of them did.
C20_FramerateIndependent ==
    [][(LerpStep /\ HasDouble(probe.dt)) =>
         LET tol == 2
             diff == Abs(probe'.one - probe'.two)
         IN  IF (probe'.one = probe.target) <=> (probe'.two = probe.target)
             THEN diff <= tol
             ELSE diff <= Scale \div 2 + tol]_vars

\* with h = 0.05 the first update did not reach the target, the second one
\* snapped to it, and so did the single update with dt = 0.1
C20_Witness ==
    /\ probe.dt = 50
    /\ probe.steps > 0
    /\ probe.cur # probe.target
    /\ probe.one = probe.target
    /\ probe.two = probe.target

(* ---------------- the animation loop ------------------------------------ *)
\* the nominal frame duration 1/60 s in ms, to the millisecond either way
NominalDts == {16, 17}

\* C21: the dt of every tick is positive and at most 0.1 s, and the dt of a
\* tick that finds lastTime still 0 is the nominal frame duration.
C21_TickDelta ==
    [][TickStep =>
         LET dt == DeltaTime(lastTime', lastTime)
         IN  /\ 0 < dt /\ dt <= 100
             /\ (lastTime = 0 => dt \in NominalDts)]_vars

\* the animation loop with what runs between its ticks: init, scroll events,
\* the loader timer and the completion callbacks
NextLoop ==
    \/ DoInit
    \/ \E y \in ScrollYs : Scroll(y)
    \/ TimePasses(MaxLoaderTime)
    \/ LoaderTickDue
    \/ \E i \in DOMAIN inflight : OnLoad(i)
    \/ \E i \in DOMAIN inflight : OnError(i)
    \/ \E t \in TickTimes(Deltas) : Animate(t)

SpecLoop == Init /\ [][NextLoop]_vars

\* C22: once init has run exactly one animation tick is pending in every
\* state; the tick can run in every such state, whatever the frame statuses
\* are and however late, and queues itself exactly once; loader ticks and
\* load callbacks leave the pending tick alone.
C22_LoopNeverStops ==
    /\ []((started /\ ~initThrew) => rafPending = 1)
    /\ []((started /\ ~initThrew) => \A d \in Deltas : ENABLED Animate(lastTime + d))
    /\ [][TickStep => rafPending' = 1]_vars
    /\ [][(LoaderTick \/ \E i \in DOMAIN inflight : OnLoad(i) \/ OnError(i)) =>
            UNCHANGED rafPending]_vars

\* ticks have run with one frame Ready, one Loading and one failed, and the
\* loader timer has stopped; one tick is pending
C22_Witness ==
    /\ lastTime >= 400
    /\ frameStatus[0] = 0 /\ frameStatus[1] = 1 /\ frameStatus[2] = 2
    /\ ~preloadTimer
    /\ rafPending = 1

\* a scroll event of Spec
ScrollStep == \E y \in ScrollYs : Scroll(y)

(* ---------------- scroll events between two ticks ----------------------- *)
\* the values a tick leaves behind for the next one
TickSnapshot(sy, sp, cf, t) ==
    [smoothScrollY |-> sy, smoothScrollProgress |-> sp, currentFrame |-> cf, lastTime |-> t]

\* a round without scroll events; an offset is kept as a sequence of length
\* one, no offset as the empty sequence
NoEvents == [first |-> <<>>, last |-> <<>>, several |-> FALSE]

\* a scroll event, recorded in the round since the last tick: the first
\* offset, the last one and whether there were several events
CoalesceScroll(y) ==
    /\ ScrollEvent(y)
    /\ probe' = [probe EXCEPT !.round = [first |-> IF @.first = <<>> THEN <<y>> ELSE @.first,
                                          last |-> <<y>>,
                                          several |-> @.first # <<>>]]

\* a tick: the round ends (probe.done keeps it) and the values the tick
\* leaves behind are recorded for the next one
CoalesceTick(timestamp) ==
    /\ animate(timestamp)
    /\ probe' = [round |-> NoEvents,
                 done |-> probe.round,
                 snap |-> TickSnapshot(smoothScrollY', smoothScrollProgress', currentFrame',
                                       lastTime')]

\* the engine as constructed; no tick has run and no scroll event has arrived
CoalesceInit ==
    /\ ScriptInit(SmallConfig, AllElements, InitialLayout)
    /\ probe = [round |-> NoEvents, done |-> NoEvents,
                snap |-> TickSnapshot(smoothScrollY, smoothScrollProgress, currentFrame,
                                      lastTime)]
    /\ SwScriptInit

\* init, scroll events, ticks early and late, and the load callbacks of the
\* keyframes between them
NextCoalesce ==
    \/ DoInit
    \/ \E y \in ScrollYs : CoalesceScroll(y)
    \/ \E t \in TickTimes(CoalesceDeltas) : CoalesceTick(t)
    \/ \E i \in DOMAIN inflight : OnLoad(i)
    \/ \E i \in DOMAIN inflight : OnError(i)

SpecCoalesce == CoalesceInit /\ [][NextCoalesce]_vars

\* a scroll event, and a tick, of SpecCoalesce
CoalesceScrollStep == \E y \in ScrollYs : CoalesceScroll(y)
CoalesceTickStep == \E t \in TickTimes(CoalesceDeltas) : CoalesceTick(t)

\* C23: scroll events between two ticks are coalesced.  Whatever number of
\* scroll events (one or more) arrived since the previous tick, the tick
\* leaves the smoothed scroll, the smoothed progress, the smoothed frame and
\* the marker that the run with only the last of these events has: one
\* interpolation step from the values the previous tick left behind toward
\* the mapping of the last offset alone, and the marker drawn from that step;
\* the earlier offsets leave no trace.  The scroll events themselves change
\* nothing else the tick reads (smoothed values, marker, time of the last
\* tick, buffers, frame store), so that the other run reaches the tick with
\* the same of these.
C23_ScrollCoalesced ==
    /\ [][(CoalesceTickStep /\ probe.round.first # <<>>) =>
            LET y == probe.round.last[1]
                max == MaxScroll(layout)
                n == CONFIG.FRAME_COUNT
                dt == DeltaTime(lastTime', probe.snap.lastTime)
                tf == MapFrame(y, max, n)
                from == IF probe.snap.currentFrame < 0 THEN tf * Scale
                        ELSE probe.snap.currentFrame
                sf == lerp(from, tf * Scale, CANVAS_LERP, dt)
            IN  /\ smoothScrollY' = lerp(probe.snap.smoothScrollY, y * Scale, LERP_FACTOR, dt)
                /\ smoothScrollProgress' =
                       lerp(probe.snap.smoothScrollProgress, MapProgress(y, max), CANVAS_LERP, dt)
                /\ currentFrame' = sf
                /\ displayedFrame' =
                       IF Round(sf) # displayedFrame /\ anyFrameReady
                       THEN Min(Max(Round(sf), 0), n - 1)
                       ELSE displayedFrame]_vars
    /\ [][CoalesceScrollStep =>
            UNCHANGED <<smoothScrollY, smoothScrollProgress, currentFrame, displayedFrame,
                        lastTime, canvasVars, storeVars, layout, rafPending>>]_vars

\* after a tick had moved the smoothed values toward offset 2, two scroll
\* events arrived, to offset 2 and then to offset 0, and the tick that
\* followed them moved the smoothed values toward 0 only
C23_Witness ==
    /\ probe.done.several
    /\ probe.done.first = <<2>> /\ probe.done.last = <<0>>
    /\ probe.round = NoEvents
    /\ probe.snap.lastTime = lastTime /\ lastTime >= 400
    /\ targetScrollY = 0 /\ targetFrame = 0
    /\ smoothScrollY > 0 /\ smoothScrollY < 2 * Scale
    /\ currentFrame > 0 /\ currentFrame < 2 * Scale

\* the fields the mapper writes and the fields the smoothing engine writes
targetFields == <<targetScrollY, targetScrollProgress, targetFrame>>
smoothedFields == <<smoothScrollY, smoothScrollProgress, currentFrame>>

\* a loader tick or a load callback
LoadStep == LoaderTick \/ \E i \in DOMAIN inflight : OnLoad(i) \/ OnError(i)

\* C24: a scroll event changes no state field but the three targets (smoothed
\* fields and marker stay); a tick leaves the three targets alone; loader
\* ticks and load callbacks leave targets and smoothed fields alone; so the
\* targets change in onScroll only (scroll events and the call in init) and
\* the smoothed fields in ticks only.
C24_SingleWriter ==
    /\ [][ScrollStep => UNCHANGED <<smoothedFields, displayedFrame, lastTime, contentHeight>>]_vars
    /\ [][TickStep => UNCHANGED targetFields]_vars
    /\ [][LoadStep => UNCHANGED <<targetFields, smoothedFields>>]_vars
    /\ [][targetFields' # targetFields => (ScrollStep \/ DoInit)]_vars
    /\ [][smoothedFields' # smoothedFields => TickStep]_vars

\* the targets are at offset 2 and frame 2 while the smoothed values are still
\* on their way, after a tick, a loader tick and a load success
C24_Witness ==
    /\ targetScrollY = 2 /\ targetFrame = 2
    /\ smoothScrollY > 0 /\ smoothScrollY < 2 * Scale
    /\ currentFrame > 0 /\ currentFrame < 2 * Scale
    /\ frameStatus[1] = 1 /\ frameStatus[2] = 2
    /\ lastTime > 0

(* ---------------- pages with one element missing ------------------------ *)
\* the elements init() looks up and the handlers use
ExpectedElements == {"nav", "heroContent", "layer1", "layer2", "smoothContent", "canvas"}

\* the page lacks exactly one of the expected elements; init, scroll events,
\* the loader, the load callbacks and the animation loop run on it
SpecDom ==
    /\ \E e \in ExpectedElements : InitWith(SmallConfig, AllElements \ {e}, InitialLayout)
    /\ [][NextLoop]_vars

\* C25: with one expected element missing, init completes, starts frame
\* loading and queues the first tick, and afterwards one tick stays pending
\* and scroll events are handled.
C25_MissingElementDegrades ==
    /\ [][DoInit =>
            /\ ~initThrew'
            /\ preloadTimer'
            /\ \E i \in FrameIdx : frameStatus'[i] = 1
            /\ rafPending' = 1]_vars
    /\ [](started => (rafPending = 1 /\ ENABLED ScrollStep))

\* the functions a handler has called, as a set
Called(cs) == { cs[j] : j \in 1 .. Len(cs) }
\* the position of the first call of function c in cs (0 if there is none)
CallPos(cs, c) ==
    IF c \in Called(cs) THEN CHOOSE j \in 1 .. Len(cs) : cs[j] = c /\ \A k \in 1 .. (j - 1) : cs[k] # c
    ELSE 0

\* C26: every handler that calls blitBuffer has called drawFrameToBuffer
\* before it and after any resizeCanvas; the buffer it copies exists and holds
\* the image of a Ready frame, and that image is what the visible canvas
\* shows afterwards; the visible canvas never gets an image any other way (it
\* changes to the buffer's image or is blanked by resizeCanvas).
C26_DoubleBuffered ==
    [][/\ "blitBuffer" \in Called(calls') =>
            /\ CallPos(calls', "drawFrameToBuffer") > CallPos(calls', "resizeCanvas")
            /\ CallPos(calls', "drawFrameToBuffer") < CallPos(calls', "blitBuffer")
            /\ offscreen'.exists
            /\ offscreen'.img # NoImage
            /\ \E i \in FrameIdx : frameStatus'[i] = 2 /\ frames'[i] = offscreen'.img
            /\ canvas'.img = offscreen'.img
       /\ canvas'.img # canvas.img =>
            \/ canvas'.img = offscreen'.img /\ "blitBuffer" \in Called(calls')
            \/ canvas'.img = NoImage /\ "resizeCanvas" \in Called(calls')]_vars

\* C27: a tick that draws hands the compositor the rounded smoothed frame
\* clamped to [0, N - 1] (the marker it sets, and the frame whose nearest
\* Ready image lands in the buffer); in every state the marker is -1 or a
\* frame index in [0, N - 1].
C27_MarkerInRange ==
    /\ [][(TickStep /\ calls' # <<>>) =>
            LET r == Round(currentFrame')
                index == IF r < 0 THEN 0
                         ELSE IF r > CONFIG.FRAME_COUNT - 1 THEN CONFIG.FRAME_COUNT - 1 ELSE r
            IN  /\ displayedFrame' = index
                /\ offscreen'.img = IF ReadySet(frames) = {} THEN offscreen.img
                                     ELSE RefNearest(frames, index)]_vars
    /\ [](displayedFrame = -1 \/ displayedFrame \in 0 .. (CONFIG.FRAME_COUNT - 1))

\* an overscroll took the smoothed frame below zero (it rounds to -1) after
\* frame 0 had been displayed: the tick drew with index 0
C27_Witness ==
    /\ targetFrame = -1
    /\ currentFrame < 0 /\ Round(currentFrame) = -1
    /\ displayedFrame = 0
    /\ calls = <<"drawFrameToBuffer", "blitBuffer">>

(* ---------------- cover-fit of drawFrameToBuffer ------------------------ *)
\* image and buffer sizes: every width and height up to FitMax, and some
\* sizes of real images and screens
FitMax == 16
FitExtraSizes == { <<7, 25>>, <<14, 50>>, <<1920, 1080>>, <<1280, 720>>, <<1366, 768>>,
                   <<1080, 1920>> }
FitSizes == ((1 .. FitMax) \X (1 .. FitMax)) \cup FitExtraSizes

\* the rational n / d (d # 0) in lowest terms, as <<numerator, denominator>>
\* with a positive denominator
RECURSIVE Gcd(_, _)
Gcd(a, b) == IF b = 0 THEN a ELSE Gcd(b, a % b)
Rat(n, d) ==
    LET g == Gcd(Abs(n), Abs(d))
    IN  IF d > 0 THEN <<n \div g, d \div g>> ELSE <<(-n) \div g, (-d) \div g>>

\* ph * ir in doubles, for ir = iw / ih and an exact product that is the
\* integer pw (image and buffer of the same aspect ratio): the number of
\* rounding steps the result lies above (1) or below (-1) pw.  The quotient
\* iw / ih is rounded to 53 bits, rem decides the direction; the product with
\* ph then lies off pw by ph times that error and is rounded to the doubles
\* next to pw (which are half as far apart below a power of two).  A quotient
\* exactly halfway between two doubles would need a 54-bit numerator.
ProductDev(iw, ih, pw, ph) ==
    LET eq == FloorLog2(iw, ih)
        ep == FloorLog2(pw, 1)
        rem == ((iw % ih) * Pow2Mod(52 - eq, ih)) % ih
        below == IF pw = Pow2(ep) THEN 1 ELSE 0
    IN  IF rem = 0 THEN 0
        ELSE IF 2 * rem < ih
             THEN (IF Exceeds(ph * rem, ih, ep - eq - 1 - below) THEN -1 ELSE 0)
             ELSE (IF Exceeds(ph * (ih - rem), ih, ep - eq - 1) THEN 1 ELSE 0)

\* the rectangle with the comparison reversed (the image is fitted inside)
CoverFit_Contain(iw, ih, pw, ph) ==
    IF pw * ih < iw * ph
    THEN [dw |-> Rat(pw, 1), dh |-> Rat(pw * ih, iw), dx |-> Rat(0, 1),
          dy |-> Rat(ph * iw - pw * ih, 2 * iw), dev |-> 0]
    ELSE [dh |-> Rat(ph, 1), dw |-> Rat(ph * iw, ih), dx |-> Rat(pw * ih - ph * iw, 2 * ih),
          dy |-> Rat(0, 1),
          dev |-> IF pw * ih = iw * ph THEN ProductDev(iw, ih, pw, ph) ELSE 0]

\* dw, dh, dx, dy of drawFrameToBuffer for an iw x ih image and a pw x ph
\* buffer.  The four values are the rationals of the formulas; dev says how
\* double arithmetic displaces them where that decides a comparison with the
\* buffer: with the same aspect ratio dw is pw + dev rounding steps and dx is
\* half a step the other way (ratios that differ, differ by far more than
\* the rounding, so cr > ir is the comparison of the exact ratios).
CoverFit(iw, ih, pw, ph) ==
    IF pw * ih > iw * ph
    THEN [dw |-> Rat(pw, 1), dh |-> Rat(pw * ih, iw), dx |-> Rat(0, 1),
          dy |-> Rat(ph * iw - pw * ih, 2 * iw), dev |-> 0]
    ELSE [dh |-> Rat(ph, 1), dw |-> Rat(ph * iw, ih), dx |-> Rat(pw * ih - ph * iw, 2 * ih),
          dy |-> Rat(0, 1),
          dev |-> IF pw * ih = iw * ph THEN ProductDev(iw, ih, pw, ph) ELSE 0]

\* no rectangle computed yet
NoRect == [dw |-> <<0, 1>>, dh |-> <<0, 1>>, dx |-> <<0, 1>>, dy |-> <<0, 1>>, dev |-> 0]

\* drawFrameToBuffer(index), called on its own, where every frame image is
\* probe.iw x probe.ih: without a buffer or an image to draw it returns (lines
\* 199-206); otherwise it computes the rectangle for the buffer of canvasW *
\* dpr by canvasH * dpr, which the probe records, and draws the image
FitStep(index) ==
    /\ IF offscreen.exists /\ PickImage(frames, CONFIG.FRAME_COUNT, index) # NoImage
       THEN probe' = [probe EXCEPT
                        !.done = TRUE,
                        !.pw = canvasW * dpr,
                        !.ph = canvasH * dpr,
                        !.rect = CoverFit(probe.iw, probe.ih, canvasW * dpr, canvasH * dpr)]
       ELSE UNCHANGED probe
    /\ offscreen' = drawFrameToBuffer(offscreen, frames, CONFIG.FRAME_COUNT, index)
    /\ UNCHANGED <<clockVars, swVars, CONFIG, DOM, started, initThrew, envVars, stateVars,
                   canvas, canvasW, canvasH, dpr, storeVars, timerVars, calls>>

\* the window of FitInit for a buffer of w x h
FitLayout(w, h) ==
    [innerWidth |-> w, innerHeight |-> h, devicePixelRatio |-> 1, scrollHeight |-> 2 * h]

\* the engine as constructed, in a window of one of the sizes and with one
\* size chosen for the frame images
FitInit ==
    /\ \E p \in FitSizes : ScriptInit(SmallConfig, AllElements, FitLayout(p[1], p[2]))
    /\ probe \in { [iw |-> i[1], ih |-> i[2], pw |-> 0, ph |-> 0, done |-> FALSE,
                    rect |-> NoRect] : i \in FitSizes }
    /\ SwScriptInit

\* init, the load of frame 0 (which creates the buffer) and calls of
\* drawFrameToBuffer
NextFit ==
    \/ DoInit
    \/ OnLoad(0)
    \/ \E index \in FrameIdx : FitStep(index)

SpecFit ==
    /\ FitInit
    /\ [][NextFit]_vars

\* comparisons of rationals <<n, d>> (d > 0)
RatLeq(x, y) == x[1] * y[2] <= y[1] * x[2]
RatSum(x, y) == Rat(x[1] * y[2] + y[1] * x[2], x[2] * y[2])
RatHalf(x) == Rat(x[1], 2 * x[2])

\* a value of the rectangle as the double it is: the rational q of the
\* formula, displaced by e half rounding steps (the rationals that differ,
\* differ by far more than a rounding step)
Displaced(q, e) == [q |-> q, e |-> e]
Whole(n) == Displaced(<<n, 1>>, 0)
DLeq(x, y) == IF RatLeq(x.q, y.q) /\ RatLeq(y.q, x.q) THEN x.e <= y.e ELSE RatLeq(x.q, y.q)
DSum(x, y) == Displaced(RatSum(x.q, y.q), x.e + y.e)
DHalf(x) == Displaced(RatHalf(x.q), x.e \div 2)

\* dw, dh, dx, dy of a rectangle of CoverFit as the doubles they are: dw lies
\* dev rounding steps off its rational and dx = (pw - dw) / 2 half as far the
\* other way
FitValues(r) ==
    [dw |-> Displaced(r.dw, 2 * r.dev), dx |-> Displaced(r.dx, -r.dev),
     dh |-> Displaced(r.dh, 0), dy |-> Displaced(r.dy, 0)]

\* what the rectangle r of an iw x ih image in a pw x ph buffer has for every
\* input: the aspect ratio of the image (of the formulas' quotients), the
\* vertical coverage and the two cases with their centring
FitShape(iw, ih, pw, ph, r) ==
    LET v == FitValues(r)
    IN  /\ r.dw[1] * r.dh[2] * ih = r.dh[1] * r.dw[2] * iw
        /\ DLeq(v.dy, Whole(0))
        /\ DLeq(Whole(ph), DSum(v.dy, v.dh))
        /\ IF pw * ih > iw * ph
           THEN /\ v.dw = Whole(pw) /\ v.dx = Whole(0)
                /\ DSum(v.dy, DHalf(v.dh)) = DHalf(Whole(ph))
           ELSE /\ v.dh = Whole(ph) /\ v.dy = Whole(0)
                /\ DSum(v.dx, DHalf(v.dw)) = DHalf(Whole(pw))

\* C28 as stated: the rectangle keeps the aspect ratio, covers the buffer
\* (dx <= 0, dy <= 0, dx + dw >= pw, dy + dh >= ph), has dw = pw and is
\* centred vertically when the buffer is relatively wider, and has dh = ph
\* and is centred horizontally otherwise.
C28_CoverFit ==
    probe.done =>
        LET v == FitValues(probe.rect)
        IN  /\ FitShape(probe.iw, probe.ih, probe.pw, probe.ph, probe.rect)
            /\ DLeq(v.dx, Whole(0))
            /\ DLeq(Whole(probe.pw), DSum(v.dx, v.dw))

\* C28, amended: the rectangle keeps the aspect ratio, has dy <= 0 and
\* dy + dh >= ph, has dw = pw and is centred vertically when the buffer is
\* relatively wider, and has dh = ph and is centred horizontally otherwise.
\* When the aspect ratios of image and buffer differ it also has dx <= 0 and
\* dx + dw >= pw.  When they are the same, dw lies within one rounding step
\* of pw, either side, dx within half a step of 0 and dx + dw within half a
\* step of pw: dx <= 0 and dx + dw >= pw may both fail by that much, as they
\* do for a 15 x 11 image in a 15 x 11 buffer, where dw is one step short.
C28_CoverFitRounded ==
    probe.done =>
        LET v == FitValues(probe.rect)
            pw == probe.pw
        IN  /\ FitShape(probe.iw, probe.ih, pw, probe.ph, probe.rect)
            /\ IF probe.iw * probe.ph # pw * probe.ih
               THEN /\ DLeq(v.dx, Whole(0))
                    /\ DLeq(Whole(pw), DSum(v.dx, v.dw))
               ELSE /\ DLeq(Displaced(<<pw, 1>>, -2), v.dw) /\ DLeq(v.dw, Displaced(<<pw, 1>>, 2))
                    /\ DLeq(Displaced(<<0, 1>>, -1), v.dx) /\ DLeq(v.dx, Displaced(<<0, 1>>, 1))
                    /\ DLeq(Displaced(<<pw, 1>>, -1), DSum(v.dx, v.dw))
                    /\ DLeq(DSum(v.dx, v.dw), Displaced(<<pw, 1>>, 1))
            /\ (probe.iw = 15 /\ probe.ih = 11 /\ pw = 15 /\ probe.ph = 11) =>
                   (v.dw = Displaced(<<15, 1>>, -2) /\ v.dx = Displaced(<<0, 1>>, 1))

\* a 1920 x 1080 image has been fitted to a 1366 x 768 buffer, which is
\* relatively wider: full width, cropped at top and bottom
C28_Witness ==
    /\ probe.done
    /\ probe.iw = 1920 /\ probe.ih = 1080 /\ probe.pw = 1366 /\ probe.ph = 768
    /\ probe.rect.dw = <<1366, 1>>
    /\ probe.rect.dy[1] < 0

(* ---------------- service worker: the fetch handler --------------------- *)
\* everything but the service worker
pageVars == <<pageVarsNoClock, clockVars>>

\* cacheFirst after `await caches.match(request)`: a cached copy is returned,
\* otherwise fetch(request) is called
cacheFirstMatched(task) ==
    IF task.cached # NoResponse
    THEN [task EXCEPT !.responded = task.cached, !.pc = "done"]
    ELSE [task EXCEPT !.pc = "fetch"]

\* cacheFirst without the response.ok test: every response is put into the cache
cacheFirstSettled_StoresAny(task, o) ==
    IF o = Rejected THEN [task EXCEPT !.responded = Offline, !.pc = "done"]
    ELSE [task EXCEPT !.response = o, !.pc = "open"]

\* cacheFirst after `await fetch(request)`: with an ok response the function
\* awaits caches.open(cacheName), another response is returned, a rejection
\* becomes the synthetic 408 response
cacheFirstSettled(task, o) ==
    IF o = Rejected THEN [task EXCEPT !.responded = Offline, !.pc = "done"]
    ELSE IF o.ok THEN [task EXCEPT !.response = o, !.pc = "open"]
    ELSE [task EXCEPT !.response = o, !.responded = o, !.pc = "done"]

\* cacheFirst after `await caches.open(cacheName)`: cache.put is called (and
\* not awaited) and the response is returned
cacheFirstOpened(task) == [task EXCEPT !.responded = task.response, !.pc = "put"]

\* staleWhileRevalidate that asks the network only when nothing is cached
staleMatched_NoRevalidate(task) ==
    IF task.cached # NoResponse
    THEN [task EXCEPT !.responded = task.cached, !.pc = "done"]
    ELSE [task EXCEPT !.pc = "fetch"]

\* staleWhileRevalidate after `await cache.match(request)`: fetch(request) is
\* called, and `cached || fetchPromise` answers at once when there is a copy
staleMatched(task) == [task EXCEPT !.responded = task.cached, !.pc = "fetch"]

\* staleWhileRevalidate when the fetch settles: an ok response is put into
\* the cache; fetchPromise is the response, or `cached` after a rejection,
\* and it is the answer when no copy had been returned
staleSettled(task, o) ==
    LET fetched == IF o = Rejected THEN task.cached ELSE o
    IN  [task EXCEPT
           !.response = IF o = Rejected THEN NoResponse ELSE o,
           !.responded = IF task.cached # NoResponse THEN task.cached
                         ELSE IF fetched = NoResponse THEN NetworkError ELSE fetched,
           !.pc = IF o # Rejected /\ o.ok THEN "put" ELSE "done"]

\* the install event: cache.addAll(STATIC_ASSETS) with every asset fetched ok
\* (no older cache exists for the activate handler to delete)
SwInstall(b) ==
    /\ ~swInstalled
    /\ swInstalled' = TRUE
    /\ cacheStorage' = [cacheStorage EXCEPT ![STATIC_CACHE] =
                           [u \in Urls |-> IF u \in STATIC_ASSETS THEN OkResponse(b) ELSE @[u]]]
    /\ UNCHANGED <<swTasks, pageVars>>

\* a fetch event for URL u, handled in slot t: the handler picks the strategy
\* and calls it, and the strategy starts its cache lookup
FetchEvent(t, u) ==
    /\ swInstalled
    /\ swTasks[t].pc \in {"idle", "done"}
    /\ swTasks' = [swTasks EXCEPT ![t] =
                      [pc |-> "match", url |-> u, strategy |-> Route(u).strategy,
                       cacheName |-> Route(u).cacheName, cached |-> NoResponse,
                       response |-> NoResponse, responded |-> NoResponse]]
    /\ UNCHANGED <<swInstalled, cacheStorage, pageVars>>

\* the cache lookup of slot t is answered: caches.match for cacheFirst,
\* cache.match of the named cache for staleWhileRevalidate
SwLookup(t) ==
    /\ swTasks[t].pc = "match"
    /\ LET task == swTasks[t]
       IN  swTasks' = [swTasks EXCEPT ![t] =
                          [task EXCEPT !.pc = "matched",
                                       !.cached = IF task.strategy = "cacheFirst"
                                                  THEN CachesMatch(cacheStorage, task.url)
                                                  ELSE cacheStorage[task.cacheName][task.url]]]
    /\ UNCHANGED <<swInstalled, cacheStorage, pageVars>>

\* the strategy function of slot t continues after its lookup
SwContinue(t) ==
    /\ swTasks[t].pc = "matched"
    /\ swTasks' = [swTasks EXCEPT ![t] =
                      IF @.strategy = "cacheFirst" THEN cacheFirstMatched(@)
                      ELSE staleMatched(@)]
    /\ UNCHANGED <<swInstalled, cacheStorage, pageVars>>

\* the network request of slot t settles with outcome o
SwSettle(t, o) ==
    /\ swTasks[t].pc = "fetch"
    /\ swTasks' = [swTasks EXCEPT ![t] =
                      IF @.strategy = "cacheFirst" THEN cacheFirstSettled(@, o)
                      ELSE staleSettled(@, o)]
    /\ UNCHANGED <<swInstalled, cacheStorage, pageVars>>

\* caches.open(cacheName) of slot t (cacheFirst with an ok response) resolves
SwOpened(t) ==
    /\ swTasks[t].pc = "open"
    /\ swTasks' = [swTasks EXCEPT ![t] = cacheFirstOpened(@)]
    /\ UNCHANGED <<swInstalled, cacheStorage, pageVars>>

\* cache.put(request, response.clone()) of slot t completes
SwPut(t) ==
    /\ swTasks[t].pc = "put"
    /\ cacheStorage' = [cacheStorage EXCEPT ![swTasks[t].cacheName][swTasks[t].url] =
                                               swTasks[t].response]
    /\ swTasks' = [swTasks EXCEPT ![t].pc = "done"]
    /\ UNCHANGED <<swInstalled, pageVars>>

NextSw ==
    \/ \E b \in Bodies : SwInstall(b)
    \/ \E t \in 1 .. MaxSwTasks, u \in Urls : FetchEvent(t, u)
    \/ \E t \in 1 .. MaxSwTasks : SwLookup(t)
    \/ \E t \in 1 .. MaxSwTasks : SwContinue(t)
    \/ \E t \in 1 .. MaxSwTasks, o \in Outcomes : SwSettle(t, o)
    \/ \E t \in 1 .. MaxSwTasks : SwOpened(t)
    \/ \E t \in 1 .. MaxSwTasks : SwPut(t)

SpecSw == InitWith(RealConfig, AllElements, MapperInitialLayout) /\ [][NextSw]_vars

\* The part of C29 that the handlers keep: a request for a frame image (path
\* with /frames/, ending in .png) is handled by cacheFirst on the frame cache;
\* cacheFirst looks the request up in the caches, and when it found a response
\* it answers with that response and makes no network fetch; a frame handler
\* goes to the network only when its own lookup found nothing; and a frame URL
\* cached with an ok response stays cached with an ok response.
C29_CacheHitNoFetch ==
    /\ [][\A t \in 1 .. MaxSwTasks : \A u \in Urls :
            (FetchEvent(t, u) /\ IsFrameRequest(u)) =>
                (swTasks'[t].strategy = "cacheFirst" /\ swTasks'[t].cacheName = FRAME_CACHE)]_vars
    /\ [][\A t \in 1 .. MaxSwTasks :
            (SwLookup(t) /\ swTasks[t].strategy = "cacheFirst") =>
                swTasks'[t].cached = CachesMatch(cacheStorage, swTasks[t].url)]_vars
    /\ [][\A t \in 1 .. MaxSwTasks :
            (SwContinue(t) /\ swTasks[t].strategy = "cacheFirst"
               /\ swTasks[t].cached # NoResponse) =>
                /\ swTasks'[t].responded = swTasks[t].cached
                /\ swTasks'[t].pc = "done"
                /\ UNCHANGED cacheStorage]_vars
    /\ [](\A t \in 1 .. MaxSwTasks :
            (IsFrameRequest(swTasks[t].url) /\ swTasks[t].pc \in {"fetch", "open", "put"}) =>
                swTasks[t].cached = NoResponse)
    /\ [][\A u \in Urls :
            (IsFrameRequest(u) /\ CachesMatch(cacheStorage, u).ok) =>
                CachesMatch(cacheStorage', u).ok]_vars

\* fetch(request) of cacheFirst is called: the handler leaves its lookup with
\* nothing found (src/sw.js line 67)
StartsFetch(t) ==
    /\ swTasks[t].pc # "fetch"
    /\ swTasks'[t].pc = "fetch"

\* C29: a frame request is routed to cacheFirst, a cached response is returned
\* without a network fetch, and once a frame URL is cached with an ok response
\* no handler fetches that URL from the network again.
C29_FramesCacheFirst ==
    /\ C29_CacheHitNoFetch
    /\ [][\A t \in 1 .. MaxSwTasks :
            (IsFrameRequest(swTasks[t].url)
               /\ CachesMatch(cacheStorage, swTasks[t].url).ok) =>
                ~StartsFetch(t)]_vars

\* C30: a same-origin request that is no frame is handled by
\* staleWhileRevalidate on the static cache: it always starts a network
\* fetch; when the static cache holds a copy the answer is that copy, given
\* before the network settles; an ok network response replaces the cache
\* entry; when there is no copy the answer is the network response.
C30_StaleWhileRevalidate ==
    /\ [][\A t \in 1 .. MaxSwTasks : \A u \in Urls :
            (FetchEvent(t, u) /\ u.origin = SwOrigin /\ ~IsFrameRequest(u)) =>
                /\ swTasks'[t].strategy = "staleWhileRevalidate"
                /\ swTasks'[t].cacheName = STATIC_CACHE]_vars
    /\ [][\A t \in 1 .. MaxSwTasks :
            (SwLookup(t) /\ swTasks[t].strategy = "staleWhileRevalidate") =>
                swTasks'[t].cached = cacheStorage[STATIC_CACHE][swTasks[t].url]]_vars
    /\ [][\A t \in 1 .. MaxSwTasks :
            (SwContinue(t) /\ swTasks[t].strategy = "staleWhileRevalidate") =>
                /\ swTasks'[t].pc = "fetch"
                /\ swTasks'[t].responded = swTasks[t].cached]_vars
    /\ [][\A t \in 1 .. MaxSwTasks : \A o \in Outcomes :
            (SwSettle(t, o) /\ swTasks[t].strategy = "staleWhileRevalidate") =>
                /\ (swTasks[t].cached # NoResponse =>
                       swTasks'[t].responded = swTasks[t].cached)
                /\ ((swTasks[t].cached = NoResponse /\ o # Rejected) =>
                       swTasks'[t].responded = o)
                /\ (o.ok => (swTasks'[t].pc = "put" /\ swTasks'[t].response = o))
                /\ (~o.ok => (swTasks'[t].pc = "done" /\ UNCHANGED cacheStorage))]_vars
    /\ [][\A t \in 1 .. MaxSwTasks :
            (SwPut(t) /\ swTasks[t].strategy = "staleWhileRevalidate") =>
                cacheStorage'[STATIC_CACHE][swTasks[t].url] = swTasks[t].response]_vars

\* the page was answered with the pre-cached copy, and the fetch started by
\* the same request has replaced that copy in the static cache by a newer one
C30_Witness ==
    \E t \in 1 .. MaxSwTasks :
        /\ swTasks[t].url = PageUrl
        /\ swTasks[t].pc = "done"
        /\ swTasks[t].responded = swTasks[t].cached
        /\ swTasks[t].cached.ok
        /\ swTasks[t].response.ok
        /\ swTasks[t].response # swTasks[t].cached
        /\ cacheStorage[STATIC_CACHE][PageUrl] = swTasks[t].response

(* ---------------- frame-store bookkeeping --------------------------------- *)
\* C31: in every reachable state framesLoadedCount is the number of Ready
\* frames, frames[i] holds an image exactly when frameStatus[i] is Ready, and
\* anyFrameReady is true exactly when framesLoadedCount >= 1;
\* framesLoadedCount never decreases; a failure and the retry of the same
\* index (status 1 -> 0 -> 1) change neither the count, the flag nor the
\* stored images.
C31_StoreConsistent ==
    /\ [](/\ framesLoadedCount = Cardinality({ i \in FrameIdx : frameStatus[i] = 2 })
          /\ \A i \in FrameIdx : (frames[i] # NoImage) <=> (frameStatus[i] = 2)
          /\ anyFrameReady <=> (framesLoadedCount >= 1))
    /\ [][framesLoadedCount' >= framesLoadedCount]_vars
    /\ [][(\E i \in FrameIdx : frameStatus[i] # frameStatus'[i] /\ frameStatus'[i] # 2) =>
             UNCHANGED <<framesLoadedCount, anyFrameReady, frames>>]_vars

(* ---------------- the debounced resize, with time -------------------------- *)
\* the clock advances in steps of ClockStep ms up to MaxClock
ClockStep == 50
MaxClock == 400

\* time passes, by d ms or up to the time the next timeout is due: a pending
\* timeout runs when it is due, not later
Advance(d) ==
    /\ LET step == IF resizePending = {} THEN d ELSE Min(d, SetMin(resizePending) - now)
       IN  /\ step > 0
           /\ now + step <= MaxClock
           /\ now' = now + step
    /\ UNCHANGED <<resizePending, preloadDue, swVars, pageVarsNoClock>>

\* the onResize timeout that is due runs its callback
ResizeTimeoutDue ==
    /\ resizePending # {}
    /\ now = SetMin(resizePending)
    /\ ResizeTimeout

\* the browser runs the queued tick with the current time as timestamp
AnimateNow == Animate(now)

NextResize ==
    \/ DoInit
    \/ \E l \in Layouts : Resize(l)
    \/ Advance(ClockStep)
    \/ ResizeTimeoutDue
    \/ \E i \in FrameIdx : OnLoad(i)
    \/ AnimateNow

SpecResize == Init /\ [][NextResize]_vars

\* the size of the compositing buffer and of the canvas
BufferSize == <<canvasW, canvasH, dpr, offscreen.width, offscreen.height,
                canvas.width, canvas.height>>

\* the step runs the callback of an onResize timeout
ResizeHandlerRuns == resizePending' # resizePending /\ resizePending' \subseteq resizePending

\* the step is a handler (no passage of time) that calls resizeCanvas
CallsResizeCanvas == now' = now /\ calls' # <<>> /\ calls'[1] = "resizeCanvas"

\* the part of the debounce that is about the timer: every resize event
\* cancels the pending timeout and sets one due RESIZE_DEBOUNCE ms after
\* itself, so that at most one is pending; the callback runs only when that
\* time has come, calls resizeCanvas and leaves no timeout pending
DebounceTimer ==
    /\ [](Cardinality(resizePending) <= 1)
    /\ [](resizeTimer <=> resizePending # {})
    /\ [][\A l \in Layouts : Resize(l) =>
            (resizePending' = {now + RESIZE_DEBOUNCE} /\ BufferSize' = BufferSize)]_vars
    /\ [][ResizeHandlerRuns =>
            /\ now \in resizePending
            /\ resizePending' = {}
            /\ calls'[1] = "resizeCanvas"
            /\ canvasW' = layout.innerWidth /\ canvasH' = layout.innerHeight]_vars
    /\ [][AnimateNow => BufferSize' = BufferSize]_vars

\* C32 as stated: with the timer as in DebounceTimer, from the first event of
\* a burst until the callback runs nothing calls resizeCanvas and the buffer
\* keeps its size, so the burst causes exactly one resizeCanvas and the ticks
\* in between see the old size.
C32_ResizeDebounced ==
    /\ DebounceTimer
    /\ [][(resizePending # {} /\ ~ResizeHandlerRuns) =>
            (BufferSize' = BufferSize /\ ~CallsResizeCanvas)]_vars

\* C32, amended: the same, except that the load of the first frame, when it
\* completes during the burst, sizes the buffer itself (onFrameReady calls
\* resizeCanvas once, for the first frame that becomes Ready).
C32_ResizeDebouncedOnceReady ==
    /\ DebounceTimer
    /\ [][(resizePending # {} /\ ~ResizeHandlerRuns /\ (anyFrameReady \/ ~anyFrameReady')) =>
            (BufferSize' = BufferSize /\ ~CallsResizeCanvas)]_vars

\* two resize events at 0 and 50 ms (the layout is the initial one again), a
\* tick at 100 ms with a frame Ready, and the callback has run at 150 ms
C32_Witness ==
    /\ now = 150
    /\ calls = <<"resizeCanvas">>
    /\ resizePending = {}
    /\ layout = InitialLayout
    /\ anyFrameReady
    /\ lastTime = 100
    /\ canvasW = layout.innerWidth

(* ---------------- cacheFirst and network failures -------------------------- *)
\* C33: cacheFirst waits for the network only when its lookup found nothing;
\* when the fetch then rejects, the handler answers with the synthetic
\* response of status 408 (a response, no rejection) and no cache changes;
\* a network response that is not ok is the answer as it is, and is not
\* stored: no put follows it and no cache ever holds a response that is not ok.
C33_FailureBecomesValue ==
    /\ [](\A t \in 1 .. MaxSwTasks :
            (swTasks[t].strategy = "cacheFirst" /\ swTasks[t].pc = "fetch") =>
                swTasks[t].cached = NoResponse)
    /\ [][\A t \in 1 .. MaxSwTasks :
            (SwSettle(t, Rejected) /\ swTasks[t].strategy = "cacheFirst") =>
                /\ swTasks'[t].responded.kind = "response"
                /\ swTasks'[t].responded.status = 408
                /\ swTasks'[t].pc = "done"
                /\ UNCHANGED cacheStorage]_vars
    /\ [][\A t \in 1 .. MaxSwTasks : \A o \in Outcomes \ {Rejected} :
            (SwSettle(t, o) /\ swTasks[t].strategy = "cacheFirst" /\ ~o.ok) =>
                /\ swTasks'[t].responded = o
                /\ swTasks'[t].pc = "done"
                /\ UNCHANGED cacheStorage]_vars
    /\ [](\A c \in DOMAIN cacheStorage : \A u \in DOMAIN cacheStorage[c] :
            cacheStorage[c][u] # NoResponse => cacheStorage[c][u].ok)

\* one frame request answered with the 408 response after a failed fetch,
\* another answered with the network's 404, and the frame cache still empty
C33_Witness ==
    /\ \E t \in 1 .. MaxSwTasks :
          /\ swTasks[t].url = FrameUrl /\ swTasks[t].pc = "done"
          /\ swTasks[t].cached = NoResponse
          /\ swTasks[t].responded = Offline
    /\ \E t \in 1 .. MaxSwTasks :
          /\ swTasks[t].url = FrameUrl /\ swTasks[t].pc = "done"
          /\ swTasks[t].cached = NoResponse
          /\ swTasks[t].responded = NotFound
    /\ cacheStorage[FRAME_CACHE][FrameUrl] = NoResponse

====
